---- MODULE Spec2Model ----
(***************************************************************************)
(* Client-side data layer of project-goliath-frontend: the generic entity  *)
(* store (createBaseStore), the ApiService envelope, the authInterceptor   *)
(* request pipeline, the error dispatcher (handleHttpErrors), AuthService  *)
(* logout and the ToastService duplicate filter.                           *)
(*                                                                         *)
(* JavaScript runs one task at a time.  A store call (getRequest or        *)
(* postRequest) is one synchronous task; pc records the position inside it *)
(* between its first patchState and the ApiService call.  The suspension   *)
(* points are the transport answers and the timers.                        *)
(*                                                                         *)
(* The store passes {params, headers} to ApiService, so its requests use   *)
(* the json response type and a failure body is never a Blob: the          *)
(* handleBlobError branch is not on the path of a store call.  The hooks   *)
(* of ServerStartupService write only that service's own fields, which no  *)
(* step of the store reads.                                                *)
(*                                                                         *)
(* SpecPipeline is the authInterceptor seen from the transport side: any   *)
(* caller's request, the hooks and timers of ServerStartupService, the     *)
(* blob branch of the error dispatcher, and the clock.  Time is counted in *)
(* milliseconds; Advance moves it forward to at most the next timer.       *)
(*                                                                         *)
(* SpecApi follows one ApiService call step by step (api): placeholder     *)
(* substitution at call time, the interceptor at subscription, the answer  *)
(* through map or catchError to the caller, on the live and the mock       *)
(* branch.  SpecToast drives showToast and its reset timers against the    *)
(* clock (notices).  SpecParams and SpecSanitizer apply setParamsInUrl,    *)
(* sanitizeInput and recursivelySanitize to sampled arguments (pure).      *)
(* The variables api, notices and pure change in these specifications only.*)
(*                                                                         *)
(* SpecLive and SpecPipelineLive add the scheduling the runtime gives: a   *)
(* started task runs to its end, the transport answers, time passes and a  *)
(* due setTimeout callback runs.  SpecChain follows one call and the       *)
(* logout requests its answers start.                                      *)
(***************************************************************************)
EXTENDS Naturals, Sequences, FiniteSets, Bags, TLC

(* ------------------------------ bounds -------------------------------- *)
\* number of getRequest/postRequest calls issued on the store
MaxCalls == 2
\* number of logout requests issued by AuthService.logout
MaxLogouts == 1
\* number of requests that enter the authInterceptor
MaxRequests == 2

(* ------------------------------ values -------------------------------- *)
\* JavaScript null/undefined in a scalar position
Null == "null"
\* JavaScript null in an object position (response, error, lastToast, body)
NoRecord == [kind |-> "null"]

\* Store configurations (BaseStoreConfig): the UserStore of the repository
\* and a generic store with a non-null initial value on a silent path.
Configs ==
  { [initialEntityState |-> Null, detailsApiEndpoint |-> <<"user", "me">>,
     createApiEndpoint |-> <<>>, isUserStore |-> TRUE],
    [initialEntityState |-> "e0", detailsApiEndpoint |-> <<"dummyapi", "items">>,
     createApiEndpoint |-> <<"dummyapi", "create">>, isUserStore |-> FALSE] }

\* Values given to updateState
UpdateValues == {"b1", Null}

\* a failure body that is a plain string: it has no message property
TextBody(text) ==
  [kind |-> "text", text |-> text, message |-> Null, error_description |-> Null]

\* a JSON failure body
JsonBody(message) ==
  [kind |-> "json", text |-> Null, message |-> message, error_description |-> Null]

\* Answers the transport delivers on the success channel (2xx)
SuccessAnswers ==
  { [status |-> 200, body |-> "b1"],
    [status |-> 200, body |-> "b2"],
    [status |-> 204, body |-> Null] }

\* Answers the transport delivers on the failure channel
FailAnswers ==
  { [status |-> 0, body |-> TextBody("ProgressEvent")],
    [status |-> 400, body |-> JsonBody(Null)],
    [status |-> 401, body |-> JsonBody("boom")],
    [status |-> 404, body |-> JsonBody("boom")],
    [status |-> 500, body |-> JsonBody("boom")],
    [status |-> 500, body |-> JsonBody(Null)] }

\* Query parameter mappings given to getRequest/postRequest
ParamSets ==
  { << [key |-> "id", val |-> "7"] >>,
    << [key |-> "id", val |-> Null] >> }

\* Request bodies: a leaf string, and an array, a plain object or a FormData
\* holding the values of its elements, own properties or entries
StringBody(text) == [kind |-> "string", text |-> text]
ArrayBody(items) == [kind |-> "array", items |-> items]
ObjectBody(items) == [kind |-> "object", items |-> items]
FormDataBody(items) == [kind |-> "formdata", items |-> items]

\* Bodies given to postRequest: a leaf string inside an object
PostBodies == { ObjectBody(<< StringBody("bob") >>),
                ObjectBody(<< StringBody("<script>x</script>") >>) }

StatusText(status) ==
  CASE status = 200 -> "OK"
    [] status = 201 -> "Created"
    [] status = 204 -> "No Content"
    [] status = 300 -> "Multiple Choices"
    [] status = 400 -> "Bad Request"
    [] status = 401 -> "Unauthorized"
    [] status = 404 -> "Not Found"
    [] status = 500 -> "Internal Server Error"
    [] status = 504 -> "Gateway Timeout"
    [] OTHER -> "Unknown Error"

VARIABLES
  config,     \* BaseStoreConfig of the store instance
  store,      \* BaseState: data, response, loading, error, initialised
  pc,         \* position inside a running getRequest/postRequest
  calls,      \* the store's calls in issue order
  toast,      \* ToastService: lastToast and its pending reset timers
  logouts,    \* AuthService.logout requests: issued, in flight
  peer,       \* BaseState of another store instance of the application
  lastOp,     \* what the last step was and what it emitted
  requests,   \* the requests that entered the authInterceptor, in order
  monitor,    \* ServerStartupService: pendingRequests, showStartupModal, timers
  thisMs,     \* the request ids built in the current clock millisecond
  raises,     \* threshold checks that raised the modal while entries were pending
  hook,       \* what the last step of the pipeline was and what it emitted
  api,        \* the ApiService call in progress or last delivered
  notices,    \* the renderer's notifications by age, the reset timers by delay
  pure        \* the input and the result of a function applied on its own

pipeVars == <<requests, monitor, thisMs, raises, hook>>
libVars == <<api, notices, pure>>
vars == <<config, store, pc, calls, toast, logouts, peer, lastOp, requests,
          monitor, thisMs, raises, hook, api, notices, pure>>

(* ------------------------- transport values --------------------------- *)
\* Angular HttpResponse as the pipeline reads it
HttpResponse(status, body, url) ==
  [isError |-> FALSE, status |-> status, statusText |-> StatusText(status),
   body |-> body, error |-> NoRecord, url |-> url,
   name |-> "HttpResponse", message |-> Null]

\* Angular HttpErrorResponse as the pipeline reads it
HttpErrorResponse(status, error, url) ==
  [isError |-> TRUE, status |-> status, statusText |-> StatusText(status),
   body |-> Null, error |-> error, url |-> url,
   name |-> "HttpErrorResponse",
   message |-> <<"Http failure response for">> \o url \o <<StatusText(status)>>]

\* x || d  and  x ?? d
JsOr(x, d) == IF x \in {Null, ""} THEN d ELSE x
JsCoalesce(x, d) == IF x = Null THEN d ELSE x

(* ---------------------------- ApiService ------------------------------ *)
\* getFullUrl: base url, optional suffix, endpoint (as path segments)
getFullUrl(suffix, endpoint) ==
  <<"api">> \o (IF suffix THEN <<"v1">> ELSE <<>>) \o endpoint

\* generateResponse whose success flag is the transport's ok range
generateResponseOkRange(response, options, requestBody) ==
  [kind |-> "envelope", requestBody |-> requestBody, options |-> options,
   response |-> IF response.isError THEN Null ELSE response.body,
   responseHeader |-> [status |-> response.status,
                       statusText |-> response.statusText,
                       success |-> response.status \in 200..299],
   id |-> 0, localOnly |-> FALSE, reflectOnly |-> FALSE,
   error |-> IF response.isError THEN response.error ELSE NoRecord]

\* generateResponse: the envelope of an answer
generateResponse(response, options, requestBody) ==
  LET isError == response.isError
      status == response.status
      body == IF isError THEN Null ELSE response.body
      error == IF isError THEN response.error ELSE NoRecord
      responseHeader ==
        [status |-> status, statusText |-> response.statusText,
         success |-> status \in {200, 201, 300}]
  IN [kind |-> "envelope", requestBody |-> requestBody, options |-> options,
      response |-> body, responseHeader |-> responseHeader, id |-> 0,
      localOnly |-> FALSE, reflectOnly |-> FALSE, error |-> error]

\* Object.assign that copies nothing
ObjectAssignNothing(customError, error) == customError

\* Object.assign(customError, error): the failure's own properties are
\* copied over the envelope's
ObjectAssign(customError, error) ==
  [status |-> error.status, statusText |-> error.statusText,
   url |-> error.url, ok |-> FALSE, name |-> error.name,
   message |-> error.message, error |-> error.error] @@ customError

\* catchError of get/post: what the caller's error handler receives
ApiFailure(error, options, requestBody) ==
  ObjectAssign(generateResponse(error, options, requestBody), error)

\* setParamsInUrl calls vals[key].toString() for every key: a null or
\* undefined value throws a TypeError out of get/post
SetParamsThrows(queryParams) ==
  \E i \in 1..Len(queryParams) : queryParams[i].val = Null

(* --------------------------- ToastService ----------------------------- *)
\* fx threads the effects of one task: the ToastService state, the
\* showToast calls made, the messages handed to the renderer, the logout
\* calls made.
NoEffects(ts) == [toast |-> ts, requested |-> <<>>, added |-> <<>>, logout |-> 0]

showToast(fx, type, detail) ==
  LET last == fx.toast.lastToast IN
  IF last # NoRecord /\ last.type = type /\ last.detail = detail
  THEN [fx EXCEPT !.requested = Append(@, detail)]
  ELSE [fx EXCEPT !.requested = Append(@, detail),
                  !.added = Append(@, detail),
                  !.toast = [lastToast |-> [kind |-> "toast", type |-> type,
                                            detail |-> detail],
                             timers |-> fx.toast.timers + 1]]

(* ----------------------------- interceptor ---------------------------- *)
\* A string handed to sanitizeInput is a sequence of lexical pieces: words,
\* a blank, tags, and character references.  The sample strings of the
\* request bodies are spelled out piece by piece.
Lexemes(s) ==
  CASE s = "" -> <<>>
    [] s = "<script>x</script>" -> <<"<script>", "x", "</script>">>
    [] s = "javascript:alert(1)" -> <<"javascript:", "alert", "(", "1", ")">>
    [] OTHER -> <<s>>

Blank == " "
StartTags == {"<script>", "<b>"}
EndTags == {"</script>"}
Tags == StartTags \cup EndTags

\* the text a character reference stands for; any other piece is itself
Decode(piece) ==
  CASE piece = "&lt;script&gt;" -> "<script>"
    [] piece = "&#40;" -> "("
    [] OTHER -> piece

\* DOMParser.parseFromString(input, 'text/html') from piece i on.  mode is
\* where the tree builder stands: "head" before any body content, "body",
\* or inside a script element of either.  elements: the body has element
\* children; text: the text content of the body so far.
RECURSIVE ParseFrom(_, _, _, _, _)
ParseFrom(input, i, mode, elements, text) ==
  IF i > Len(input) THEN [elements |-> elements, textContent |-> text]
  ELSE LET p == input[i] IN
    CASE mode = "head" ->
           IF p = "<script>" THEN ParseFrom(input, i + 1, "headScript", elements, text)
           ELSE IF p = Blank \/ p \in EndTags
             THEN ParseFrom(input, i + 1, "head", elements, text)
           ELSE IF p \in StartTags
             THEN ParseFrom(input, i + 1, "body", TRUE, text)
           ELSE ParseFrom(input, i + 1, "body", elements, Append(text, Decode(p)))
      [] mode = "headScript" ->
           IF p = "</script>" THEN ParseFrom(input, i + 1, "head", elements, text)
           ELSE ParseFrom(input, i + 1, "headScript", elements, text)
      [] mode = "bodyScript" ->
           IF p = "</script>" THEN ParseFrom(input, i + 1, "body", elements, text)
           ELSE ParseFrom(input, i + 1, "bodyScript", elements, Append(text, p))
      [] OTHER ->
           IF p = "<script>" THEN ParseFrom(input, i + 1, "bodyScript", TRUE, text)
           ELSE IF p \in StartTags THEN ParseFrom(input, i + 1, "body", TRUE, text)
           ELSE IF p \in EndTags THEN ParseFrom(input, i + 1, "body", elements, text)
           ELSE ParseFrom(input, i + 1, "body", elements, Append(text, Decode(p)))

\* hasHtmlElementNodes(doc) and doc.body.textContent
ParseHtml(input) == ParseFrom(input, 1, "head", FALSE, <<>>)

\* name\s*\( : the name, any blanks, an opening parenthesis
CallLike(text, name) ==
  \E i \in 1..Len(text) :
    /\ text[i] = name
    /\ \E j \in (i + 1)..Len(text) :
         /\ text[j] = "("
         /\ \A k \in (i + 1)..(j - 1) : text[k] = Blank

\* the functions named by the call patterns of dangerousPatterns
CallNames == {"eval", "setTimeout", "alert", "setInterval", "fetch"}

\* dangerousPatterns without the eval pattern
DangerousWithoutEval(text) ==
  \/ \E i \in 1..Len(text) : text[i] \in {"<script>", "javascript:"}
  \/ \E name \in CallNames \ {"eval"} : CallLike(text, name)
  \/ \E i \in 1..(Len(text) - 1) : text[i] \in Tags /\ text[i + 1] = Blank

\* some pattern of dangerousPatterns matches the text: <script>,
\* javascript:, a call of a listed function, a tag followed by a blank
\* (the patterns that no piece of the samples can match are left out)
Dangerous(text) ==
  \/ \E i \in 1..Len(text) : text[i] \in {"<script>", "javascript:"}
  \/ \E name \in CallNames : CallLike(text, name)
  \/ \E i \in 1..(Len(text) - 1) : text[i] \in Tags /\ text[i + 1] = Blank

\* sanitizeInput: nothing for an empty or blank input; else element nodes
\* in the parsed body, or a pattern matching the input or the text content
sanitizeInput(input) ==
  IF \A i \in 1..Len(input) : input[i] = Blank
  THEN [sanitized |-> <<>>, error |-> FALSE]
  ELSE LET doc == ParseHtml(input)
       IN [sanitized |-> input,
           error |-> \/ doc.elements
                     \/ Dangerous(input)
                     \/ doc.textContent # <<>> /\ Dangerous(doc.textContent)]

\* recursivelySanitize that passes over a FormData without reading it
RECURSIVE recursivelySanitizeSkipsFormData(_)
recursivelySanitizeSkipsFormData(data) ==
  IF data.kind = "string"
  THEN [hasError |-> sanitizeInput(Lexemes(data.text)).error]
  ELSE IF data.kind \in {"array", "object"}
    THEN [hasError |-> \E i \in 1..Len(data.items) :
                         recursivelySanitizeSkipsFormData(data.items[i]).hasError]
  ELSE [hasError |-> FALSE]

\* recursivelySanitize: handleFormData, handleString, handleArray,
\* handleObject; any other value is not inspected
RECURSIVE recursivelySanitize(_)
recursivelySanitize(data) ==
  IF data.kind = "string"
  THEN [hasError |-> sanitizeInput(Lexemes(data.text)).error]
  ELSE IF data.kind \in {"formdata", "array", "object"}
    THEN [hasError |-> \E i \in 1..Len(data.items) :
                         recursivelySanitize(data.items[i]).hasError]
  ELSE [hasError |-> FALSE]

\* req.url.split('/').pop(): the text after the last slash
LastSegment(url) == IF Len(url) = 0 THEN "" ELSE url[Len(url)]

\* sanitizeRequestBody that inspects the body whatever the url
sanitizeRequestBodyAnyUrl(method, url, body) ==
  IF body # NoRecord /\ method \in {"POST", "PUT", "PATCH"}
  THEN recursivelySanitize(body)
  ELSE [hasError |-> FALSE]

\* sanitizeRequestBody: only POST, PUT, PATCH with a body and a non-empty
\* last url segment
sanitizeRequestBody(method, url, body) ==
  IF body # NoRecord /\ method \in {"POST", "PUT", "PATCH"}
     /\ LastSegment(url) # ""
  THEN recursivelySanitize(body)
  ELSE [hasError |-> FALSE]

\* err.url?.includes('/dummyapi')
UrlIncludesDummyapi(url) == \E i \in 1..Len(url) : url[i] = "dummyapi"

\* authService.logout() as an effect of the task
logout(fx) == [fx EXCEPT !.logout = @ + 1]

\* handleHttpErrors whose status list lacks 500
handleHttpErrorsWithout500(fx, err) ==
  IF err.status = 0 THEN fx
  ELSE IF err.status = 400
    THEN showToast(fx, "error", JsOr(err.error.message, "An unexpected error occurred."))
  ELSE IF err.status = 401
    THEN logout(showToast(fx, "error",
           JsCoalesce(err.error.message, "Unauthorized Access. Please log in again.")))
  ELSE IF err.status \in {400, 402, 404, 409}
    THEN LET msg == IF err.status = 404
                    THEN "Sorry, the requested resource was not found."
                    ELSE JsCoalesce(err.error.message,
                           JsCoalesce(err.error.error_description,
                                      "An unexpected error occurred."))
         IN IF ~UrlIncludesDummyapi(err.url) THEN showToast(fx, "error", msg) ELSE fx
  ELSE fx

\* handleHttpErrors for a non-blob failure body
handleHttpErrors(fx, err) ==
  IF err.status = 0 THEN fx
  ELSE IF err.status = 400
    THEN showToast(fx, "error", JsOr(err.error.message, "An unexpected error occurred."))
  ELSE IF err.status = 401
    THEN logout(showToast(fx, "error",
           JsCoalesce(err.error.message, "Unauthorized Access. Please log in again.")))
  ELSE IF err.status \in {400, 402, 404, 409, 500}
    THEN LET msg == IF err.status = 404
                    THEN "Sorry, the requested resource was not found."
                    ELSE JsCoalesce(err.error.message,
                           JsCoalesce(err.error.error_description,
                                      "An unexpected error occurred."))
         IN IF ~UrlIncludesDummyapi(err.url) THEN showToast(fx, "error", msg) ELSE fx
  ELSE fx

(* ------------------------------ base store ---------------------------- *)
\* createBaseStore: initialState
initialState(cfg) ==
  [data |-> cfg.initialEntityState, response |-> NoRecord, loading |-> FALSE,
   error |-> NoRecord, initialised |-> FALSE]

\* patchState(state, patch): the fields of the patch replace the state's
patchState(state, patch) == patch @@ state

\* startPatch without initialised in the patch
startPatchKeepsInitialised(state, cfg) ==
  patchState(state,
    [data |-> cfg.initialEntityState, response |-> NoRecord, loading |-> TRUE,
     error |-> NoRecord])

\* startPatch that only raises loading and clears the error
startPatchKeepsData(state, cfg) ==
  patchState(state, [loading |-> TRUE, error |-> NoRecord, initialised |-> FALSE])

\* first patchState of getRequest and of postRequest
startPatch(state, cfg) ==
  patchState(state,
    [data |-> cfg.initialEntityState, response |-> NoRecord, loading |-> TRUE,
     error |-> NoRecord, initialised |-> FALSE])

\* handleRequestSuccess storing an answer without taking its payload as data
handleRequestSuccessKeepsData(state, response) ==
  patchState(state,
    [loading |-> FALSE, response |-> response, error |-> NoRecord,
     initialised |-> TRUE])

\* handleRequestSuccess that drops an answer when the store is not loading
handleRequestSuccessIfLoading(state, response) ==
  IF state.loading
  THEN patchState(state,
         [loading |-> FALSE, data |-> response.response, response |-> response,
          error |-> NoRecord, initialised |-> TRUE])
  ELSE state

handleRequestSuccess(state, response) ==
  patchState(state,
    [loading |-> FALSE, data |-> response.response, response |-> response,
     error |-> NoRecord, initialised |-> TRUE])

\* handleRequestError that leaves data and response as they are
handleRequestErrorKeepsData(state, userError, cfg) ==
  patchState(state,
    [loading |-> FALSE, error |-> userError, initialised |-> FALSE])

\* handleRequestError that drops a failure when the store is not loading
handleRequestErrorIfLoading(state, userError, cfg) ==
  IF state.loading
  THEN patchState(state,
         [loading |-> FALSE, data |-> cfg.initialEntityState,
          response |-> NoRecord, error |-> userError, initialised |-> FALSE])
  ELSE state

\* handleRequestError; apiService.handleApiError only logs or alerts
handleRequestError(state, userError, cfg) ==
  patchState(state,
    [loading |-> FALSE, data |-> cfg.initialEntityState, response |-> NoRecord,
     error |-> userError, initialised |-> FALSE])

\* updateState with the commented-out initialised: true
updateStateInitialises(state, entityValue) ==
  patchState(state,
    [data |-> entityValue, loading |-> FALSE, error |-> NoRecord,
     initialised |-> TRUE] @@ state)

\* updateState that also clears the stored response
updateStateClearsResponse(state, entityValue) ==
  patchState(state,
    [data |-> entityValue, loading |-> FALSE, error |-> NoRecord,
     response |-> NoRecord])

\* updateState that leaves the stored error in place
updateStateKeepsError(state, entityValue) ==
  patchState(state, [data |-> entityValue, loading |-> FALSE] @@ state)

\* {...currentState, data, loading, error}: the later keys win
updateState(state, entityValue) ==
  patchState(state,
    [data |-> entityValue, loading |-> FALSE, error |-> NoRecord] @@ state)

\* clearState that leaves data as it is
clearStateKeepsData(state, cfg) ==
  patchState(state,
    [response |-> NoRecord, loading |-> FALSE, error |-> NoRecord,
     initialised |-> FALSE])

\* clearState without response in the patch
clearStateKeepsResponse(state, cfg) ==
  patchState(state,
    [data |-> cfg.initialEntityState, loading |-> FALSE, error |-> NoRecord,
     initialised |-> FALSE])

clearState(state, cfg) ==
  patchState(state,
    [data |-> cfg.initialEntityState, response |-> NoRecord, loading |-> FALSE,
     error |-> NoRecord, initialised |-> FALSE])

(* ------------------------------ the state ----------------------------- *)
Idle == [at |-> "idle"]

\* the lifecycle state derived from the loading/initialised/error fields
Lifecycle(state) ==
  IF state.loading THEN "loading"
  ELSE IF state.initialised THEN "ready"
  ELSE IF state.error # NoRecord THEN "error"
  ELSE "idle"

\* lastOp: the step just taken, the call it belongs to (its method, the last
\* operation that ran on the store while it was in flight), the lifecycle
\* state the step started from, the data the other store instance held
\* before a logout answer, the transport answer it applied, the value
\* it was given, and the effects it emitted: showToast calls, messages
\* handed to the renderer, logout calls, transport requests issued
Op(kind, call, answer, fx, transport) ==
  [kind |-> kind, call |-> call,
   method |-> IF call \in DOMAIN calls THEN calls[call].method
              ELSE IF pc # Idle THEN pc.method ELSE Null,
   superseded |-> IF call \in DOMAIN calls THEN calls[call].superseded ELSE Null,
   from |-> Lifecycle(store), peerData |-> Null, answer |-> answer,
   arg |-> Null,
   requested |-> fx.requested, added |-> fx.added, logout |-> fx.logout,
   transport |-> transport]

\* history of a call: the last operation that ran on the store while the
\* call was in flight
Supersede(cs, kind) ==
  [i \in DOMAIN cs |->
     IF cs[i].st = "inflight" THEN [cs[i] EXCEPT !.superseded = kind] ELSE cs[i]]

\* a call in flight keeps what its completion handlers close over
NewCall(st, patches) ==
  [st |-> st, method |-> pc.method, params |-> pc.params, body |-> pc.body,
   url |-> getFullUrl(TRUE, pc.endpoint), patches |-> patches,
   superseded |-> Null]

\* a call that has ended keeps only how it ended and its terminal patches
EndedCall(st, patches) ==
  [st |-> st, method |-> Null, params |-> <<>>, body |-> NoRecord,
   url |-> <<>>, patches |-> patches, superseded |-> Null]

\* {...options, params: params}: params is the copy taken on entry
OptionsOf(params) == [params |-> params, headers |-> Null]

\* no ApiService call has been made
NoCall == [at |-> "idle"]

\* the configuration of the other store instance: when the store is not the
\* UserStore, the other instance is the UserStore AuthService injects
PeerConfig == CHOOSE c \in Configs : c # config

\* the application after construction
Constructed ==
  /\ config \in Configs
  /\ store = initialState(config)
  /\ peer = initialState(PeerConfig)
  /\ pc = Idle
  /\ calls = <<>>
  /\ toast = [lastToast |-> NoRecord, timers |-> 0]
  /\ logouts = [issued |-> 0, inflight |-> 0]
  /\ lastOp = Op("init", 0, NoRecord, NoEffects(toast), 0)
  /\ requests = <<>>
  /\ monitor = [pendingRequests |-> {}, showStartupModal |-> FALSE,
                timers |-> EmptyBag]
  /\ thisMs = {}
  /\ raises = 0
  /\ hook = [kind |-> "init", req |-> 0, input |-> NoRecord, online |-> TRUE,
             status |-> Null, requested |-> <<>>, logout |-> 0,
             transport |-> 0, was |-> FALSE]
  /\ api = NoCall
  /\ notices = [shown |-> {}, timers |-> EmptyBag, calls |-> 0,
                last |-> [kind |-> "init"]]

\* no function is being applied on its own
Init == Constructed /\ pure = NoRecord

(* ------------------------------ store calls --------------------------- *)
\* getRequest up to its first patchState
GetRequest(queryParams) ==
  /\ pc = Idle
  /\ Len(calls) < MaxCalls
  /\ store' = startPatch(store, config)
  /\ pc' = [at |-> "patched", method |-> "GET", params |-> queryParams,
            body |-> NoRecord, endpoint |-> config.detailsApiEndpoint]
  /\ calls' = Supersede(calls, "getRequest")
  /\ lastOp' = Op("getRequest", Len(calls) + 1, NoRecord, NoEffects(toast), 0)
  /\ UNCHANGED <<peer, config, toast, logouts, pipeVars, libVars>>

\* postRequest up to its first patchState
PostRequest(body, queryParams) ==
  /\ pc = Idle
  /\ Len(calls) < MaxCalls
  /\ store' = startPatch(store, config)
  /\ pc' = [at |-> "patched", method |-> "POST", params |-> queryParams,
            body |-> body,
            endpoint |-> IF config.createApiEndpoint # <<>>
                         THEN config.createApiEndpoint
                         ELSE config.detailsApiEndpoint]
  /\ calls' = Supersede(calls, "postRequest")
  /\ lastOp' = Op("postRequest", Len(calls) + 1, NoRecord, NoEffects(toast), 0)
  /\ UNCHANGED <<peer, config, toast, logouts, pipeVars, libVars>>

\* apiService.get/post throws out of setParamsInUrl: the task ends there
DispatchThrows ==
  /\ pc.at = "patched"
  /\ SetParamsThrows(pc.params)
  /\ calls' = Append(calls, EndedCall("thrown", 0))
  /\ pc' = Idle
  /\ lastOp' = Op("thrown", Len(calls) + 1, NoRecord, NoEffects(toast), 0)
  /\ UNCHANGED <<peer, config, store, toast, logouts, pipeVars, libVars>>

\* navigator.onLine is false: the interceptor fails the call at once
DispatchOffline ==
  /\ pc.at = "patched"
  /\ ~SetParamsThrows(pc.params)
  /\ LET err == HttpErrorResponse(0, TextBody("No Internet Connection"), <<>>)
         userError == ApiFailure(err, OptionsOf(pc.params), pc.body)
     IN /\ store' = handleRequestError(store, userError, config)
        /\ lastOp' = Op("failure", Len(calls) + 1,
                        [status |-> 0, body |-> err.error], NoEffects(toast), 0)
  /\ calls' = Append(calls, EndedCall("done", 1))
  /\ pc' = Idle
  /\ UNCHANGED <<peer, config, toast, logouts, pipeVars, libVars>>

\* the Sanitizer flags the body: toast, synthesized 400, no transport call
DispatchFlagged ==
  /\ pc.at = "patched"
  /\ ~SetParamsThrows(pc.params)
  /\ sanitizeRequestBody(pc.method, getFullUrl(TRUE, pc.endpoint), pc.body).hasError
  /\ LET fx == showToast(NoEffects(toast), "error", "Please enter valid input.")
         err == HttpErrorResponse(400, TextBody("Invalid Input"), <<>>)
         userError == ApiFailure(err, OptionsOf(pc.params), pc.body)
     IN /\ store' = handleRequestError(store, userError, config)
        /\ toast' = fx.toast
        /\ lastOp' = Op("failure", Len(calls) + 1,
                        [status |-> 400, body |-> err.error], fx, 0)
  /\ calls' = Append(calls, EndedCall("done", 1))
  /\ pc' = Idle
  /\ UNCHANGED <<peer, config, logouts, pipeVars, libVars>>

\* the request is handed to the transport
DispatchTransport ==
  /\ pc.at = "patched"
  /\ ~SetParamsThrows(pc.params)
  /\ ~sanitizeRequestBody(pc.method, getFullUrl(TRUE, pc.endpoint), pc.body).hasError
  /\ calls' = Append(calls, NewCall("inflight", 0))
  /\ pc' = Idle
  /\ lastOp' = Op("dispatch", Len(calls) + 1, NoRecord, NoEffects(toast), 1)
  /\ UNCHANGED <<peer, config, store, toast, logouts, pipeVars, libVars>>

(* --------------------------- transport answers ------------------------ *)
\* a 2xx answer: map(generateResponse), then the store's next handler
TransportSuccess(c, status, body) ==
  /\ pc = Idle
  /\ c \in DOMAIN calls
  /\ calls[c].st = "inflight"
  /\ LET response == generateResponse(HttpResponse(status, body, calls[c].url),
                                      OptionsOf(calls[c].params), calls[c].body)
     IN store' = handleRequestSuccess(store, response)
  /\ calls' = [calls EXCEPT ![c] = EndedCall("done", calls[c].patches + 1)]
  /\ lastOp' = Op("success", c, [status |-> status, body |-> body],
                  NoEffects(toast), 0)
  /\ UNCHANGED <<peer, config, pc, toast, logouts, pipeVars, libVars>>

\* a failure answer: the interceptor's catchError (handleHttpErrors), the
\* ApiService catchError, then the store's error handler.  online is
\* navigator.onLine as read by the logout request a 401 starts.
TransportFailure(c, status, body, online) ==
  /\ pc = Idle
  /\ c \in DOMAIN calls
  /\ calls[c].st = "inflight"
  /\ status = 401 => logouts.issued < MaxLogouts
  /\ LET err == HttpErrorResponse(status, body, calls[c].url)
         fx == handleHttpErrors(NoEffects(toast), err)
         userError == ApiFailure(err, OptionsOf(calls[c].params), calls[c].body)
         sent == IF online THEN fx.logout ELSE 0
     IN /\ store' = handleRequestError(store, userError, config)
        /\ toast' = fx.toast
        /\ logouts' = [issued |-> logouts.issued + fx.logout,
                       inflight |-> logouts.inflight + sent]
        /\ lastOp' = Op("failure", c, [status |-> status, body |-> body], fx, sent)
  /\ calls' = [calls EXCEPT ![c] = EndedCall("done", calls[c].patches + 1)]
  /\ UNCHANGED <<peer, config, pc, pipeVars, libVars>>

(* --------------------------- local operations ------------------------- *)
UpdateState(entityValue) ==
  /\ pc = Idle
  /\ store' = updateState(store, entityValue)
  /\ calls' = Supersede(calls, "updateState")
  /\ lastOp' = [Op("updateState", 0, NoRecord, NoEffects(toast), 0)
                  EXCEPT !.arg = entityValue]
  /\ UNCHANGED <<peer, config, pc, toast, logouts, pipeVars, libVars>>

ClearState ==
  /\ pc = Idle
  /\ store' = clearState(store, config)
  /\ calls' = Supersede(calls, "clearState")
  /\ lastOp' = Op("clearState", 0, NoRecord, NoEffects(toast), 0)
  /\ UNCHANGED <<peer, config, pc, toast, logouts, pipeVars, libVars>>

(* ------------------------------- logout ------------------------------- *)
LogoutUrl == getFullUrl(TRUE, <<"auth", "logout">>)

\* the logout request is answered 2xx: on responseHeader.success
\* userStore.clearState() runs on the UserStore, whichever instance that is
LogoutSuccess(status, body) ==
  /\ pc = Idle
  /\ logouts.inflight > 0
  /\ LET response == generateResponse(HttpResponse(status, body, LogoutUrl),
                                      OptionsOf(<<>>), NoRecord)
         success == response.responseHeader.success
         clears == success /\ config.isUserStore
     IN /\ store' = IF clears THEN clearState(store, config) ELSE store
        /\ calls' = IF clears THEN Supersede(calls, "clearState") ELSE calls
        /\ peer' = IF success /\ PeerConfig.isUserStore
                   THEN clearState(peer, PeerConfig)
                   ELSE peer
  /\ logouts' = [logouts EXCEPT !.inflight = @ - 1]
  /\ lastOp' = [Op("logoutSuccess", 0, [status |-> status, body |-> body],
                     NoEffects(toast), 0) EXCEPT !.peerData = peer.data]
  /\ UNCHANGED <<config, pc, toast, pipeVars, libVars>>

\* the logout request fails: handleHttpErrors runs for it too
LogoutFailure(status, body, online) ==
  /\ pc = Idle
  /\ logouts.inflight > 0
  /\ status = 401 => logouts.issued < MaxLogouts
  /\ LET err == HttpErrorResponse(status, body, LogoutUrl)
         fx == handleHttpErrors(NoEffects(toast), err)
         sent == IF online THEN fx.logout ELSE 0
     IN /\ toast' = fx.toast
        /\ logouts' = [issued |-> logouts.issued + fx.logout,
                       inflight |-> logouts.inflight - 1 + sent]
        /\ lastOp' = Op("logoutFailure", 0, [status |-> status, body |-> body],
                        fx, sent)
  /\ UNCHANGED <<peer, config, store, pc, calls, pipeVars, libVars>>

(* ---------------------------- toast timer ----------------------------- *)
\* a setTimeout of showToast fires: lastToast = null
ToastTimer ==
  /\ pc = Idle
  /\ toast.timers > 0
  /\ toast' = [lastToast |-> NoRecord, timers |-> toast.timers - 1]
  /\ lastOp' = Op("toastTimer", 0, NoRecord, NoEffects(toast'), 0)
  /\ UNCHANGED <<peer, config, store, pc, calls, logouts, pipeVars, libVars>>

\* navigator.onLine is read again only by the logout request of a 401
OnLine(status) == IF status = 401 THEN BOOLEAN ELSE {TRUE}

Next ==
  \/ \E q \in ParamSets : GetRequest(q)
  \/ \E b \in PostBodies, q \in ParamSets : PostRequest(b, q)
  \/ DispatchThrows
  \/ DispatchOffline
  \/ DispatchFlagged
  \/ DispatchTransport
  \/ \E c \in 1..MaxCalls, a \in SuccessAnswers :
       TransportSuccess(c, a.status, a.body)
  \/ \E c \in 1..MaxCalls, a \in FailAnswers :
       \E o \in OnLine(a.status) : TransportFailure(c, a.status, a.body, o)
  \/ \E v \in UpdateValues : UpdateState(v)
  \/ ClearState
  \/ \E a \in SuccessAnswers : LogoutSuccess(a.status, a.body)
  \/ \E a \in FailAnswers :
       \E o \in OnLine(a.status) : LogoutFailure(a.status, a.body, o)
  \/ ToastTimer

Spec == Init /\ [][Next]_vars

(* --------------------- the store under fair scheduling ----------------- *)
\* the rest of the task of getRequest/postRequest after its first patch:
\* JavaScript runs a task to its end
FinishCall ==
  DispatchThrows \/ DispatchOffline \/ DispatchFlagged \/ DispatchTransport

\* the transport answers a call it was given
TransportAnswers ==
  \/ \E c \in 1..MaxCalls, a \in SuccessAnswers :
       TransportSuccess(c, a.status, a.body)
  \/ \E c \in 1..MaxCalls, a \in FailAnswers :
       \E o \in OnLine(a.status) : TransportFailure(c, a.status, a.body, o)

\* Spec where every started task runs to its end and the transport
\* eventually answers every request it is given
SpecLive ==
  /\ Init
  /\ [][Next]_vars
  /\ WF_vars(FinishCall)
  /\ WF_vars(TransportAnswers)

(* ------------------------ a second store instance --------------------- *)
\* updateState called on the other store instance
PeerUpdateState(entityValue) ==
  /\ pc = Idle
  /\ peer' = updateState(peer, entityValue)
  /\ lastOp' = Op("peerOperation", 0, NoRecord, NoEffects(toast), 0)
  /\ UNCHANGED <<config, store, pc, calls, toast, logouts, pipeVars, libVars>>

\* clearState called on the other store instance
PeerClearState ==
  /\ pc = Idle
  /\ peer' = clearState(peer, PeerConfig)
  /\ lastOp' = Op("peerOperation", 0, NoRecord, NoEffects(toast), 0)
  /\ UNCHANGED <<config, store, pc, calls, toast, logouts, pipeVars, libVars>>

\* Values given to updateState on the other store instance
PeerValues == {"b1"}

NextStores ==
  \/ Next
  \/ \E v \in PeerValues : PeerUpdateState(v)
  \/ PeerClearState

SpecStores == Init /\ [][NextStores]_vars

(* ======================== the request pipeline ======================== *)
(* ------------------------ ServerStartupService ------------------------ *)
STARTUP_THRESHOLD == 5000
CONNECTION_ERROR_STATUS == 0
\* the delay of the setTimeout in onRequestEnd
HIDE_DELAY == 500

\* error?.message?.toLowerCase().includes('timeout') on the sample messages
IncludesTimeout(message) ==
  \E i \in 1..Len(message) : message[i] \in {"Gateway Timeout", "timeout"}

\* the test of onRequestEnd on its optional error argument
IsConnectionOrTimeout(error) ==
  /\ error # NoRecord
  /\ \/ error.status = CONNECTION_ERROR_STATUS
     \/ IncludesTimeout(error.message)
     \/ error.name = "TimeoutError"

\* how a failed request ended, as onRequestEnd tells failures apart
FailureKind(error) ==
  IF error.status = CONNECTION_ERROR_STATUS THEN "connection"
  ELSE IF IsConnectionOrTimeout(error) THEN "timeout"
  ELSE "failure"

\* a setTimeout callback waiting: what it does, the request id it closes
\* over, the request whose hook scheduled it, the milliseconds left
Timer(kind, id, n, delay) == [kind |-> kind, id |-> id, req |-> n, due |-> delay]

\* onRequestStart that schedules no threshold check
onRequestStartWithoutCheck(m, requestId, n) ==
  [m EXCEPT !.pendingRequests = @ \cup {requestId}]

\* pendingRequests.set(requestId, startTime) and the threshold setTimeout
onRequestStart(m, requestId, n) ==
  [m EXCEPT !.pendingRequests = @ \cup {requestId},
            !.timers = @ (+) SetToBag({Timer("check", requestId, n,
                                             STARTUP_THRESHOLD)})]

\* onRequestEnd whose error branch only fires when nothing else is pending
onRequestEndWhenLast(m, requestId, error, n) ==
  LET removed == [m EXCEPT !.pendingRequests = @ \ {requestId}] IN
  IF removed.pendingRequests = {}
  THEN IF IsConnectionOrTimeout(error)
       THEN [removed EXCEPT !.showStartupModal = TRUE]
       ELSE [removed EXCEPT
               !.timers = @ (+) SetToBag({Timer("hide", NoRecord, n, HIDE_DELAY)})]
  ELSE removed

\* onRequestEnd that leaves the entry in pendingRequests
onRequestEndWithoutDelete(m, requestId, error, n) ==
  IF IsConnectionOrTimeout(error)
  THEN [m EXCEPT !.showStartupModal = TRUE]
  ELSE IF m.pendingRequests = {}
    THEN [m EXCEPT
            !.timers = @ (+) SetToBag({Timer("hide", NoRecord, n, HIDE_DELAY)})]
  ELSE m

\* pendingRequests.delete(requestId), then the modal is raised for a
\* connection error or timeout, else the hide setTimeout when the map is empty
onRequestEnd(m, requestId, error, n) ==
  LET removed == [m EXCEPT !.pendingRequests = @ \ {requestId}] IN
  IF IsConnectionOrTimeout(error)
  THEN [removed EXCEPT !.showStartupModal = TRUE]
  ELSE IF removed.pendingRequests = {}
    THEN [removed EXCEPT
            !.timers = @ (+) SetToBag({Timer("hide", NoRecord, n, HIDE_DELAY)})]
  ELSE removed

\* a threshold check that raises the modal whatever the map holds
thresholdCheckAlways(m, requestId) == [m EXCEPT !.showStartupModal = TRUE]

\* the callback of the threshold setTimeout
thresholdCheck(m, requestId) ==
  IF requestId \in m.pendingRequests
  THEN [m EXCEPT !.showStartupModal = TRUE]
  ELSE m

\* a hide callback that leaves the modal as it is
hideCheckNever(m) == m

\* the callback of the hide setTimeout
hideCheck(m) ==
  IF m.pendingRequests = {} THEN [m EXCEPT !.showStartupModal = FALSE] ELSE m

hideModal(m) == [m EXCEPT !.showStartupModal = FALSE]

(* --------------------------- authInterceptor -------------------------- *)
\* the body of a failure answer that is a Blob: whether the FileReader can
\* read it and what JSON.parse makes of its text (NoRecord: it throws)
BlobBody(readable, parsed) ==
  [kind |-> "blob", text |-> Null, message |-> Null, error_description |-> Null,
   readable |-> readable, parsed |-> parsed]

\* a JSON document inside a Blob
BlobJson(message, errorCode) ==
  [kind |-> "json", message |-> message, errorCode |-> errorCode]

\* the text "null" inside a Blob: JSON.parse returns null
JsonNull == [kind |-> "jsonNull", message |-> Null, errorCode |-> Null]

\* Requests that callers hand to HttpClient
HttpRequests ==
  { [method |-> "GET", url |-> <<"api", "v1", "items">>, body |-> NoRecord,
     responseType |-> "json"],
    [method |-> "GET", url |-> <<"api", "v1", "report">>, body |-> NoRecord,
     responseType |-> "blob"],
    [method |-> "POST", url |-> <<"api", "v1", "items">>,
     body |-> ObjectBody(<< StringBody("<script>x</script>") >>),
     responseType |-> "json"],
    [method |-> "PATCH", url |-> <<"api", "v1", "items">>,
     body |-> FormDataBody(<< StringBody("javascript:alert(1)") >>),
     responseType |-> "json"],
    [method |-> "PUT", url |-> <<"api", "v1", "items", "">>,
     body |-> ArrayBody(<< StringBody("bob"),
                           ObjectBody(<< StringBody("<script>x</script>") >>) >>),
     responseType |-> "json"] }

\* the request AuthService.logout issues through ApiService.get
LogoutRequest ==
  [method |-> "GET", url |-> getFullUrl(TRUE, <<"auth", "logout">>),
   body |-> NoRecord, responseType |-> "json"]

\* Statuses the transport delivers on the success channel
PipelineSuccesses == {200, 204}

\* Failure answers whose body is not a Blob
PipelineFailures ==
  { [status |-> 0, body |-> TextBody("ProgressEvent")],
    [status |-> 401, body |-> JsonBody("boom")],
    [status |-> 401, body |-> TextBody("Unauthorized")],
    [status |-> 500, body |-> JsonBody("boom")],
    [status |-> 504, body |-> JsonBody("boom")] }

\* Failure answers to a request of response type blob
BlobFailures ==
  { [status |-> 401, body |-> BlobBody(TRUE, BlobJson("boom", Null))],
    [status |-> 401, body |-> BlobBody(TRUE, JsonNull)],
    [status |-> 401, body |-> BlobBody(TRUE, NoRecord)],
    [status |-> 401, body |-> BlobBody(FALSE, NoRecord)] }

\* `${req.method}-${req.url}-${Date.now()}`: ids built in the same
\* millisecond for the same method and url are the same string; the
\* timestamp is represented by the first request that obtained it
RequestId(ms, r, n) ==
  LET same == {id \in ms : id.method = r.method /\ id.url = r.url} IN
  IF same # {} THEN CHOOSE id \in same : TRUE
  ELSE [method |-> r.method, url |-> r.url, first |-> n]

\* a request that has left the pipeline
Ended(dispatched, early, how) ==
  [st |-> "ended", dispatched |-> dispatched, id |-> NoRecord, url |-> <<>>,
   responseType |-> Null, caller |-> Null, early |-> early, how |-> how,
   err |-> NoRecord]

\* a request handed to the transport
Dispatched(id, r, caller) ==
  [st |-> "inflight", dispatched |-> TRUE, id |-> id, url |-> r.url,
   responseType |-> r.responseType, caller |-> caller, early |-> FALSE,
   how |-> Null, err |-> NoRecord]

\* the order of the checks of authInterceptor with the sanitizer first
authInterceptorSanitizesFirst(online, hasError) ==
  IF hasError THEN "invalid" ELSE IF ~online THEN "offline" ELSE "dispatch"

\* the order of the checks of authInterceptor: connectivity, sanitizer
authInterceptor(online, hasError) ==
  IF ~online THEN "offline" ELSE IF hasError THEN "invalid" ELSE "dispatch"

\* the synchronous part of authInterceptor for request r, run on the
\* pipeline state ps = [requests, monitor, thisMs, fx]
Intercept(ps, r, online, caller) ==
  LET n == Len(ps.requests) + 1
      stage == authInterceptor(online,
                 sanitizeRequestBody(r.method, r.url, r.body).hasError)
      id == RequestId(ps.thisMs, r, n)
  IN CASE stage = "offline" ->
            [ps EXCEPT !.requests = Append(@, Ended(FALSE, FALSE, "offline"))]
       [] stage = "invalid" ->
            [ps EXCEPT !.requests = Append(@, Ended(FALSE, FALSE, "invalid")),
                       !.fx = showToast(@, "error", "Please enter valid input.")]
       [] OTHER ->
            [ps EXCEPT !.requests = Append(@, Dispatched(id, r, caller)),
                       !.monitor = onRequestStart(@, id, n),
                       !.thisMs = @ \cup {id}]

\* the try block of reader.onload runs to its end: the reader has the
\* text, JSON.parse returns, and the value has properties to read (on null
\* jsonError.message throws)
BlobDecodes(err) ==
  /\ err.error.readable
  /\ err.error.parsed # NoRecord
  /\ err.error.parsed # JsonNull

\* the failure handleBlobError gives to observer.error: a copy of the
\* failure with the decoded body, or the failure itself from the catch
\* block and from reader.onerror
blobError(err) ==
  IF BlobDecodes(err) THEN [err EXCEPT !.error = err.error.parsed] ELSE err

\* the onload and onerror callbacks of handleBlobError
handleBlobError(fx, err) ==
  IF BlobDecodes(err)
  THEN showToast(fx, "error",
         JsCoalesce(err.error.parsed.message,
           JsCoalesce(err.error.parsed.errorCode, "An unknown error occurred.")))
  ELSE fx

(* ---------------------------- pipeline state -------------------------- *)
PipelineState(fx) ==
  [requests |-> requests, monitor |-> monitor, thisMs |-> thisMs, fx |-> fx]

\* the request's own threshold check has not come due yet
Early(n) ==
  \E t \in BagToSet(monitor.timers) : t.kind = "check" /\ t.req = n /\ t.due > 0

\* threshold checks that raised the modal since the map was last empty
Stretch(m, raised) ==
  IF m.pendingRequests = {} THEN 0
  ELSE IF raises + raised > 2 THEN 2 ELSE raises + raised

\* hook: the pipeline step just taken, the request it was about, the inputs
\* of a new request, the status of the failure delivered, the effects
\* emitted, and showStartupModal before the step
Hook(kind, n, input, online, status, fx, transport) ==
  [kind |-> kind, req |-> n, input |-> input, online |-> online,
   status |-> status, requested |-> fx.requested, logout |-> fx.logout,
   transport |-> transport, was |-> monitor.showStartupModal]

storeVars == <<config, store, pc, calls, logouts, peer, lastOp>>

(* --------------------------- pipeline actions ------------------------- *)
\* a caller subscribes to a request: authInterceptor runs up to next(req)
Request(r, online) ==
  /\ Len(requests) < MaxRequests
  /\ LET out == Intercept(PipelineState(NoEffects(toast)), r, online, "app")
         new == out.requests[Len(out.requests)]
     IN /\ requests' = out.requests
        /\ monitor' = out.monitor
        /\ thisMs' = out.thisMs
        /\ toast' = out.fx.toast
        /\ raises' = Stretch(out.monitor, 0)
        /\ hook' = Hook(IF new.dispatched THEN "dispatch" ELSE new.how,
                        Len(out.requests), r, online,
                        CASE new.dispatched -> Null
                          [] new.how = "offline" -> 0
                          [] OTHER -> 400,
                        out.fx, IF new.dispatched THEN 1 ELSE 0)
  /\ UNCHANGED <<storeVars, libVars>>

\* a 2xx answer: finalize runs the end hook; the next handler of
\* AuthService.logout clears the UserStore on responseHeader.success
Success(n, status) ==
  /\ n \in DOMAIN requests
  /\ requests[n].st = "inflight"
  /\ LET success == status \in {200, 201, 300}
         clears == requests[n].caller = "logout" /\ success
         m == onRequestEnd(monitor, requests[n].id, NoRecord, n)
     IN /\ monitor' = m
        /\ raises' = Stretch(m, 0)
        /\ store' = IF clears /\ config.isUserStore
                    THEN clearState(store, config) ELSE store
        /\ calls' = IF clears /\ config.isUserStore
                    THEN Supersede(calls, "clearState") ELSE calls
        /\ peer' = IF clears /\ PeerConfig.isUserStore
                   THEN clearState(peer, PeerConfig) ELSE peer
  /\ requests' = [requests EXCEPT ![n] = Ended(TRUE, Early(n), "success")]
  /\ hook' = Hook("success", n, NoRecord, TRUE, status, NoEffects(toast), 0)
  /\ UNCHANGED <<config, pc, toast, logouts, lastOp, thisMs, libVars>>

\* the caller unsubscribes from a request in flight: finalize runs
Unsubscribe(n) ==
  /\ n \in DOMAIN requests
  /\ requests[n].st = "inflight"
  /\ requests[n].caller = "app"
  /\ LET m == onRequestEnd(monitor, requests[n].id, NoRecord, n)
     IN /\ monitor' = m
        /\ raises' = Stretch(m, 0)
  /\ requests' = [requests EXCEPT ![n] = Ended(TRUE, Early(n), "unsubscribed")]
  /\ hook' = Hook("unsubscribe", n, NoRecord, TRUE, Null, NoEffects(toast), 0)
  /\ UNCHANGED <<storeVars, toast, thisMs, libVars>>

\* a failure answer whose body is not a Blob: catchError runs the end hook
\* with the error, handleHttpErrors toasts and on 401 calls logout, whose
\* request enters authInterceptor at once; then finalize runs the end hook
FailureWithin(bound, n, status, body, online) ==
  /\ n \in DOMAIN requests
  /\ requests[n].st = "inflight"
  /\ status = 401 => Len(requests) < bound
  /\ LET id == requests[n].id
         err == HttpErrorResponse(status, body, requests[n].url)
         caught == onRequestEnd(monitor, id, err, n)
         fx == handleHttpErrors(NoEffects(toast), err)
         ps == [PipelineState(fx) EXCEPT !.monitor = caught]
         out == IF fx.logout > 0
                THEN Intercept(ps, LogoutRequest, online, "logout")
                ELSE ps
         m == onRequestEnd(out.monitor, id, NoRecord, n)
     IN /\ monitor' = m
        /\ raises' = Stretch(m, 0)
        /\ thisMs' = out.thisMs
        /\ toast' = out.fx.toast
        /\ requests' = [out.requests EXCEPT ![n] =
                          Ended(TRUE, Early(n),
                                FailureKind(err))]
        /\ hook' = Hook("failure", n, NoRecord, online, status, out.fx,
                        IF /\ Len(out.requests) > Len(requests)
                           /\ out.requests[Len(out.requests)].dispatched
                        THEN 1 ELSE 0)
  /\ UNCHANGED <<storeVars, libVars>>

Failure(n, status, body, online) ==
  FailureWithin(MaxRequests, n, status, body, online)

\* a failure answer whose body is a Blob: catchError runs the end hook with
\* the error and handleBlobError starts the FileReader
BlobFailure(n, status, body) ==
  /\ n \in DOMAIN requests
  /\ requests[n].st = "inflight"
  /\ requests[n].responseType = "blob"
  /\ LET err == HttpErrorResponse(status, body, requests[n].url)
         m == onRequestEnd(monitor, requests[n].id, err, n)
     IN /\ monitor' = m
        /\ raises' = Stretch(m, 0)
        /\ requests' = [requests EXCEPT ![n] =
                          [@ EXCEPT !.st = "reading", !.err = err,
                                    !.early = Early(n)]]
  /\ hook' = Hook("blobFailure", n, NoRecord, TRUE, status, NoEffects(toast), 0)
  /\ UNCHANGED <<storeVars, toast, thisMs, libVars>>

\* the FileReader is done: onload or onerror delivers the failure, and
\* finalize runs the end hook
BlobRead(n) ==
  /\ n \in DOMAIN requests
  /\ requests[n].st = "reading"
  /\ LET fx == handleBlobError(NoEffects(toast), requests[n].err)
         m == onRequestEnd(monitor, requests[n].id, NoRecord, n)
     IN /\ monitor' = m
        /\ raises' = Stretch(m, 0)
        /\ toast' = fx.toast
        /\ hook' = Hook("blobRead", n, NoRecord, TRUE, requests[n].err.status,
                        fx, 0)
                     @@ [original |-> requests[n].err,
                         delivered |-> blobError(requests[n].err)]
  /\ requests' = [requests EXCEPT ![n] = Ended(TRUE, requests[n].early, "failure")]
  /\ UNCHANGED <<storeVars, thisMs, libVars>>

\* the threshold setTimeout of onRequestStart fires
CheckTimer(t) ==
  /\ BagIn(t, monitor.timers)
  /\ t.kind = "check"
  /\ t.due = 0
  /\ LET m == thresholdCheck(
                [monitor EXCEPT !.timers = @ (-) SetToBag({t})], t.id)
     IN /\ monitor' = m
        /\ raises' = Stretch(m, IF ~monitor.showStartupModal /\ m.showStartupModal
                                THEN 1 ELSE 0)
  /\ hook' = Hook("check", t.req, NoRecord, TRUE, Null, NoEffects(toast), 0)
  /\ UNCHANGED <<storeVars, toast, requests, thisMs, libVars>>

\* the hide setTimeout of onRequestEnd fires
HideTimer(t) ==
  /\ BagIn(t, monitor.timers)
  /\ t.kind = "hide"
  /\ t.due = 0
  /\ LET m == hideCheck([monitor EXCEPT !.timers = @ (-) SetToBag({t})])
     IN /\ monitor' = m
        /\ raises' = Stretch(m, 0)
  /\ hook' = Hook("hide", t.req, NoRecord, TRUE, Null, NoEffects(toast), 0)
  /\ UNCHANGED <<storeVars, toast, requests, thisMs, libVars>>

\* the user dismisses the modal that is showing
HideModal ==
  /\ monitor.showStartupModal
  /\ monitor' = hideModal(monitor)
  /\ hook' = Hook("hideModal", 0, NoRecord, TRUE, Null, NoEffects(toast), 0)
  /\ UNCHANGED <<storeVars, toast, requests, thisMs, raises, libVars>>

\* d milliseconds pass: no timer is overtaken
Advance(d) ==
  /\ d > 0
  /\ \A t \in BagToSet(monitor.timers) : t.due >= d
  /\ monitor' = [monitor EXCEPT !.timers =
                   [t \in {[x EXCEPT !.due = @ - d] : x \in BagToSet(@)} |->
                      CopiesIn([t EXCEPT !.due = @ + d], monitor.timers)]]
  /\ thisMs' = {}
  /\ hook' = Hook("advance", 0, NoRecord, TRUE, Null, NoEffects(toast), 0)
  /\ UNCHANGED <<storeVars, toast, requests, raises, libVars>>

\* the lapses of time the clock is moved by: one millisecond after a request
\* was dispatched, and the time to the next timer
Lapses ==
  (IF thisMs # {} THEN {1} ELSE {})
  \cup {t.due : t \in BagToSet(monitor.timers)}

NextPipeline ==
  \/ \E r \in HttpRequests, o \in BOOLEAN : Request(r, o)
  \/ \E n \in 1..MaxRequests, s \in PipelineSuccesses : Success(n, s)
  \/ \E n \in 1..MaxRequests : Unsubscribe(n)
  \/ \E n \in 1..MaxRequests, a \in PipelineFailures :
       \E o \in OnLine(a.status) : Failure(n, a.status, a.body, o)
  \/ \E n \in 1..MaxRequests, a \in BlobFailures : BlobFailure(n, a.status, a.body)
  \/ \E n \in 1..MaxRequests : BlobRead(n)
  \/ \E t \in BagToSet(monitor.timers) : CheckTimer(t)
  \/ \E t \in BagToSet(monitor.timers) : HideTimer(t)
  \/ HideModal
  \/ \E d \in Lapses : Advance(d)
  \/ ToastTimer

\* the pipeline of an application whose store instance is the UserStore
InitPipeline == Init /\ config.isUserStore

SpecPipeline == InitPipeline /\ [][NextPipeline]_vars

(* -------------------- the pipeline under a running clock --------------- *)
\* a setTimeout callback that is due runs
TimersFire ==
  \/ \E t \in BagToSet(monitor.timers) : CheckTimer(t)
  \/ \E t \in BagToSet(monitor.timers) : HideTimer(t)

\* time passes
ClockRuns == \E d \in Lapses : Advance(d)

\* SpecPipeline where time passes and every due callback runs
SpecPipelineLive ==
  /\ InitPipeline
  /\ [][NextPipeline]_vars
  /\ WF_vars(TimersFire)
  /\ WF_vars(ClockRuns)

(* ------------------------ the chain of logouts ------------------------ *)
\* requests in the chain that one call starts: the call and the logout
\* requests that follow it
MaxChain == 3

\* the call that starts the chain
ChainCall == CHOOSE r \in HttpRequests : r.method = "GET" /\ r.responseType = "json"

\* the first request of the chain is made
ChainRequest ==
  /\ requests = <<>>
  /\ Request(ChainCall, TRUE)

\* One call and what follows from its answers, the answers to the logout
\* requests included, against the clock
NextChain ==
  \/ ChainRequest
  \/ \E n \in 1..MaxChain, s \in PipelineSuccesses : Success(n, s)
  \/ \E n \in 1..MaxChain, a \in PipelineFailures :
       \E o \in OnLine(a.status) : FailureWithin(MaxChain, n, a.status, a.body, o)
  \/ \E t \in BagToSet(monitor.timers) : CheckTimer(t)
  \/ \E t \in BagToSet(monitor.timers) : HideTimer(t)
  \/ \E d \in Lapses : Advance(d)
  \/ ToastTimer

SpecChain == InitPipeline /\ [][NextChain]_vars

(* ======================= ApiService, call by call ====================== *)
(* --------------------------- setParamsInUrl --------------------------- *)
\* A JavaScript string as the sequence of its characters.  The strings in
\* which a placeholder can start or end are spelled out; any other sample
\* string holds no ':' and is kept as one piece.
Chars(s) ==
  CASE s = "" -> <<>>
    [] s = ":id" -> <<":", "i", "d">>
    [] s = ":idx" -> <<":", "i", "d", "x">>
    [] s = "id" -> <<"i", "d">>
    [] s = "idx" -> <<"i", "d", "x">>
    [] s = "7x" -> <<"7", "x">>
    [] s = "9x" -> <<"9", "x">>
    [] OTHER -> <<s>>

Spelled == {"", ":id", ":idx", "id", "idx", "7x", "9x"}

\* the string a sequence of characters spells
Text(cs) ==
  IF \E s \in Spelled : Chars(s) = cs
  THEN CHOOSE s \in Spelled : Chars(s) = cs
  ELSE CHOOSE s \in {cs[1]} : Len(cs) = 1

\* the positions at which pattern occurs in str
Occurrences(str, pattern) ==
  {k \in 1..(Len(str) + 1 - Len(pattern)) :
     SubSeq(str, k, k + Len(pattern) - 1) = pattern}

\* String.prototype.replace with a string pattern: the first occurrence
StringReplace(str, pattern, replacement) ==
  LET at == Occurrences(str, pattern) IN
  IF at = {} THEN str
  ELSE LET k == CHOOSE i \in at : \A j \in at : i <= j
       IN SubSeq(str, 1, k - 1) \o replacement
            \o SubSeq(str, k + Len(pattern), Len(str))

\* delete queryParams[itm]
DeleteKey(queryParams, itm) ==
  SelectSeq(queryParams, LAMBDA e : e.key # itm)

\* keys.forEach of setParamsInUrl from the k-th key of the snapshot on:
\* tempurl is the split endpoint, queryParams the object being mutated
RECURSIVE SetParamsFrom(_, _, _, _)
SetParamsFrom(tempurl, entries, k, queryParams) ==
  IF k > Len(entries)
  THEN [endpoint |-> tempurl, queryParams |-> queryParams]
  ELSE LET itm == entries[k].key
           nval == Chars(entries[k].val)
           regxStr == <<":">> \o Chars(itm)
           hit == \E i \in 1..Len(tempurl) : Chars(tempurl[i]) = regxStr
           mapped == [i \in 1..Len(tempurl) |->
                        Text(StringReplace(Chars(tempurl[i]), regxStr, nval))]
       IN SetParamsFrom(mapped, entries, k + 1,
                        IF hit THEN DeleteKey(queryParams, itm) ELSE queryParams)

\* setParamsInUrl: the endpoint returned and queryParams as it is left
setParamsInUrl(endpoint, queryParams) ==
  SetParamsFrom(endpoint, queryParams, 1, queryParams)

(* ----------------------------- the envelope --------------------------- *)
\* getMockDataUrl: assets/mock-data/ and the last segment followed by .json
getMockDataUrl(endpoint) ==
  <<"assets", "mock-data", LastSegment(endpoint), ".json">>

\* the envelope of the mock branch when the mock file is missing
MockMissing(options) ==
  [kind |-> "envelope", options |-> options, response |-> Null,
   responseHeader |-> [status |-> 404,
                       statusText |-> "Not Found (mock file missing)",
                       success |-> FALSE],
   id |-> 0, localOnly |-> FALSE, reflectOnly |-> FALSE,
   error |-> [kind |-> "json", message |-> "Mock file not found"]]

\* the envelope of the mock branch around the content of the mock file
MockFound(options, mockData) ==
  [kind |-> "envelope", options |-> options, response |-> mockData,
   responseHeader |-> [status |-> 200, statusText |-> "OK (from mock file)",
                       success |-> TRUE],
   id |-> 0, localOnly |-> FALSE, reflectOnly |-> FALSE, error |-> NoRecord]

\* a failure answer without a body: HttpErrorResponse.error is null, and
\* every property read through ?. is undefined
EmptyBody ==
  [kind |-> "null", text |-> Null, message |-> Null, error_description |-> Null]

(* ------------------------------ the calls ----------------------------- *)
\* options.params of a call: absent, or an object with its keys in order
NoParams == [present |-> FALSE, entries |-> <<>>]
Params(entries) == [present |-> TRUE, entries |-> entries]

\* Calls made on ApiService: get, post, put, delete
ApiCalls ==
  { [method |-> "GET", endpoint |-> <<"items">>, params |-> NoParams,
     body |-> NoRecord, isMock |-> FALSE],
    [method |-> "GET", endpoint |-> <<"users", ":id">>,
     params |-> Params(<< [key |-> "id", val |-> "7"] >>),
     body |-> NoRecord, isMock |-> FALSE],
    [method |-> "GET", endpoint |-> <<"users", ":idx">>,
     params |-> Params(<< [key |-> "id", val |-> "7"],
                          [key |-> "idx", val |-> "9"] >>),
     body |-> NoRecord, isMock |-> FALSE],
    [method |-> "GET", endpoint |-> <<"users", ":id">>,
     params |-> Params(<< [key |-> "id", val |-> "7"] >>),
     body |-> NoRecord, isMock |-> TRUE],
    [method |-> "POST", endpoint |-> <<"items">>, params |-> NoParams,
     body |-> ObjectBody(<< StringBody("bob") >>), isMock |-> FALSE],
    [method |-> "POST", endpoint |-> <<"items">>, params |-> NoParams,
     body |-> ObjectBody(<< StringBody("<script>x</script>") >>),
     isMock |-> FALSE],
    [method |-> "POST", endpoint |-> <<"items">>, params |-> NoParams,
     body |-> ObjectBody(<< StringBody("bob") >>), isMock |-> TRUE],
    [method |-> "PUT", endpoint |-> <<"users", ":id">>,
     params |-> Params(<< [key |-> "id", val |-> "7"] >>),
     body |-> ObjectBody(<< StringBody("bob") >>), isMock |-> FALSE],
    [method |-> "DELETE", endpoint |-> <<"users", ":id">>,
     params |-> Params(<< [key |-> "id", val |-> "7"] >>),
     body |-> NoRecord, isMock |-> FALSE] }

\* Answers of the transport to an ApiService call, success channel
ApiSuccesses ==
  { [status |-> 200, body |-> "b1"],
    [status |-> 201, body |-> "b1"],
    [status |-> 204, body |-> Null] }

\* Answers of the transport to an ApiService call, failure channel
ApiFailures ==
  { [status |-> 0, body |-> TextBody("ProgressEvent")],
    [status |-> 300, body |-> EmptyBody],
    [status |-> 401, body |-> JsonBody("boom")],
    [status |-> 404, body |-> JsonBody("boom")],
    [status |-> 500, body |-> EmptyBody] }

\* get/post/put/delete up to the return of the cold observable: the copy of
\* options.params, setParamsInUrl when options.params is there, the request
\* that a subscription will hand to HttpClient
NewApiCall(d) ==
  LET res == IF d.params.present
             THEN setParamsInUrl(d.endpoint, d.params.entries)
             ELSE [endpoint |-> d.endpoint, queryParams |-> <<>>]
  IN [at |-> "cold", method |-> d.method, isMock |-> d.isMock,
      given |-> d.params.entries, params |-> d.params.entries,
      left |-> res.queryParams, body |-> d.body,
      request |-> IF d.isMock
                  THEN [method |-> "GET", url |-> getMockDataUrl(res.endpoint),
                        body |-> NoRecord, responseType |-> "json"]
                  ELSE [method |-> d.method,
                        url |-> getFullUrl(TRUE, res.endpoint),
                        body |-> d.body, responseType |-> "json"],
      req |-> 0, online |-> TRUE, envelope |-> NoRecord, attempts |-> 0,
      trace |-> IF d.params.present THEN <<"setParamsInUrl">> ELSE <<>>]

\* the steps authInterceptor takes up to its return
InterceptorSteps(stage) ==
  CASE stage = "offline" -> <<"onLine">>
    [] stage = "invalid" -> <<"onLine", "sanitizeRequestBody", "showToast">>
    [] OTHER -> <<"onLine", "sanitizeRequestBody", "interceptorFn",
                  "onRequestStart", "next">>

\* the failure authInterceptor throws without calling next
InterceptorError(stage) ==
  IF stage = "offline"
  THEN HttpErrorResponse(0, TextBody("No Internet Connection"), <<>>)
  ELSE HttpErrorResponse(400, TextBody("Invalid Input"), <<>>)

\* catchError of ApiService that subscribes to the request once more
ApiCatchErrorRetries(call, error) ==
  [call EXCEPT !.attempts = @ + 1, !.trace = @ \o <<"catchError", "next">>]

\* catchError of ApiService that completes without an error notification
ApiCatchErrorCompletes(call, error) ==
  [call EXCEPT !.at = "complete", !.trace = @ \o <<"catchError">>]

\* catchError of get/post/put/delete: the failure envelope goes to the
\* caller's error handler
ApiCatchError(call, error) ==
  [call EXCEPT
     !.at = "error",
     !.envelope = IF call.isMock
                  THEN MockMissing(OptionsOf(call.params))
                  ELSE ApiFailure(error, OptionsOf(call.params), call.body),
     !.trace = @ \o <<"catchError", "errorHandler">>]

\* map of get/post/put/delete: the envelope goes to the caller's next handler
ApiMap(call, response) ==
  [call EXCEPT
     !.at = "next",
     !.envelope = IF call.isMock
                  THEN MockFound(OptionsOf(call.params), response.body)
                  ELSE generateResponse(response, OptionsOf(call.params),
                                        call.body),
     !.trace = @ \o <<"map", "nextHandler">>]

\* the steps of the interceptor's catchError before the failure goes on
CaughtSteps(fx) ==
  <<"onRequestEnd">> \o [i \in 1..Len(fx.requested) |-> "showToast"]
    \o [i \in 1..fx.logout |-> "logout"]

\* the request of the call in flight
ApiReq == IF api.at = "inflight" THEN api.req ELSE 0

(* ------------------------------ the steps ----------------------------- *)
\* a caller calls get, post, put or delete
ApiCall(d) ==
  /\ api.at \in {"idle", "next", "error"}
  /\ Len(requests) < MaxRequests
  /\ api' = NewApiCall(d)
  /\ UNCHANGED <<storeVars, toast, pipeVars, notices, pure>>

\* the caller subscribes: authInterceptor runs up to next(req), and a
\* failure it throws goes through catchError of ApiService at once
ApiSubscribe(online) ==
  /\ api.at = "cold"
  /\ Len(requests) < MaxRequests
  /\ LET out == Intercept(PipelineState(NoEffects(toast)), api.request,
                          online, "api")
         n == Len(out.requests)
         new == out.requests[n]
         stage == IF new.dispatched THEN "dispatch" ELSE new.how
         entered == [api EXCEPT !.online = online,
                                !.trace = @ \o InterceptorSteps(stage)]
     IN /\ requests' = out.requests
        /\ monitor' = out.monitor
        /\ thisMs' = out.thisMs
        /\ toast' = out.fx.toast
        /\ raises' = Stretch(out.monitor, 0)
        /\ hook' = Hook(stage, n, api.request, online,
                        CASE new.dispatched -> Null
                          [] new.how = "offline" -> 0
                          [] OTHER -> 400,
                        out.fx, IF new.dispatched THEN 1 ELSE 0)
        /\ api' = IF new.dispatched
                  THEN [entered EXCEPT !.at = "inflight", !.req = n,
                                       !.attempts = @ + 1]
                  ELSE ApiCatchError(entered, InterceptorError(stage))
  /\ UNCHANGED <<storeVars, notices, pure>>

\* a 2xx answer to the call in flight: map, the caller's next handler,
\* then finalize runs the end hook
ApiNext(status, body) ==
  /\ api.at = "inflight"
  /\ LET n == api.req
         m == onRequestEnd(monitor, requests[n].id, NoRecord, n)
         mapped == ApiMap(api, HttpResponse(status, body, api.request.url))
     IN /\ monitor' = m
        /\ raises' = Stretch(m, 0)
        /\ requests' = [requests EXCEPT ![n] = Ended(TRUE, Early(n), "success")]
        /\ api' = [mapped EXCEPT !.trace = @ \o <<"finalize">>]
        /\ hook' = Hook("success", n, NoRecord, TRUE, status, NoEffects(toast), 0)
  /\ UNCHANGED <<storeVars, toast, thisMs, notices, pure>>

\* a failure answer to the call in flight: the interceptor's catchError
\* (end hook with the error, handleHttpErrors, the logout request of a 401),
\* catchError of ApiService, the caller's error handler, then finalize
ApiError(status, body, online) ==
  /\ api.at = "inflight"
  /\ status = 401 => Len(requests) < MaxRequests
  /\ LET n == api.req
         id == requests[n].id
         err == HttpErrorResponse(status, body, requests[n].url)
         caught == onRequestEnd(monitor, id, err, n)
         fx == handleHttpErrors(NoEffects(toast), err)
         ps == [PipelineState(fx) EXCEPT !.monitor = caught]
         out == IF fx.logout > 0
                THEN Intercept(ps, LogoutRequest, online, "logout")
                ELSE ps
         m == onRequestEnd(out.monitor, id, NoRecord, n)
         thrown == ApiCatchError([api EXCEPT !.trace = @ \o CaughtSteps(fx)], err)
     IN /\ monitor' = m
        /\ raises' = Stretch(m, 0)
        /\ thisMs' = out.thisMs
        /\ toast' = out.fx.toast
        /\ requests' = [out.requests EXCEPT ![n] =
                          Ended(TRUE, Early(n),
                                FailureKind(err))]
        /\ api' = [thrown EXCEPT !.trace = @ \o <<"finalize">>]
        /\ hook' = Hook("failure", n, NoRecord, online, status, out.fx,
                        IF /\ Len(out.requests) > Len(requests)
                           /\ out.requests[Len(out.requests)].dispatched
                        THEN 1 ELSE 0)
  /\ UNCHANGED <<storeVars, notices, pure>>

\* the steps of ApiService calls made one after the other, the answers to
\* the logout requests they start, and the reset timer of ToastService
NextApi ==
  \/ \E d \in ApiCalls : ApiCall(d)
  \/ \E o \in BOOLEAN : ApiSubscribe(o)
  \/ \E a \in ApiSuccesses : ApiNext(a.status, a.body)
  \/ \E a \in ApiFailures :
       \E o \in OnLine(a.status) : ApiError(a.status, a.body, o)
  \/ \E n \in (1..MaxRequests) \ {ApiReq}, s \in PipelineSuccesses : Success(n, s)
  \/ \E n \in (1..MaxRequests) \ {ApiReq}, a \in PipelineFailures :
       \E o \in OnLine(a.status) : Failure(n, a.status, a.body, o)
  \/ ToastTimer

SpecApi == InitPipeline /\ [][NextApi]_vars

(* -------------------- setParamsInUrl applied on its own ---------------- *)
\* the longest endpoint and the longest mapping given to setParamsInUrl
MaxSegments == 2
MaxKeys == 2

\* Path segments, parameter keys and parameter values of the samples
Segments == {"users", ":id", ":idx"}
ParamKeys == {"id", "idx"}
ParamValues == {"7", "9"}

\* the sequences over S of length 1 to n
SeqsUpTo(S, n) == UNION {[1..k -> S] : k \in 1..n}

Endpoints == SeqsUpTo(Segments, MaxSegments)

\* objects: no key twice, keys in insertion order
Mappings ==
  {<<>>} \cup
  {q \in SeqsUpTo([key : ParamKeys, val : ParamValues], MaxKeys) :
     \A i, j \in 1..Len(q) : q[i].key = q[j].key => i = j}

\* a function about to be applied to an input
Sample(fn, input) ==
  [fn |-> fn, input |-> input, done |-> FALSE, output |-> NoRecord]

InitParams ==
  /\ Constructed
  /\ pure \in {Sample("setParamsInUrl", [endpoint |-> e, queryParams |-> q]) :
                 e \in Endpoints, q \in Mappings}

\* setParamsInUrl(endpoint, queryParams) is called
ApplySetParams ==
  /\ pure.fn = "setParamsInUrl"
  /\ ~pure.done
  /\ pure' = [pure EXCEPT
                !.done = TRUE,
                !.output = setParamsInUrl(pure.input.endpoint,
                                          pure.input.queryParams)]
  /\ UNCHANGED <<storeVars, toast, pipeVars, api, notices>>

SpecParams == InitParams /\ [][ApplySetParams]_vars

(* ===================== ToastService against the clock ================== *)
\* number of showToast calls
MaxToasts == 3
\* the delay of the setTimeout in showToast
TOAST_RESET == 3000

\* Notifications given to showToast: type and detail
ToastInputs ==
  { [type |-> "error", detail |-> "boom"],
    [type |-> "error", detail |-> "Please enter valid input."],
    [type |-> "success", detail |-> "boom"] }

\* the notifications handed to messageService.add less than TOAST_RESET ago
Recent(shown) == {s \in shown : s.age < TOAST_RESET}

\* showToast(type, summary, detail, position): the filter on lastToast,
\* messageService.add, and the setTimeout that resets lastToast
ShowToast(type, detail) ==
  /\ notices.calls < MaxToasts
  /\ LET fx == showToast(NoEffects(toast), type, detail)
         added == Len(fx.added) > 0
     IN /\ toast' = fx.toast
        /\ notices' =
             [shown |-> IF added
                        THEN Recent(notices.shown)
                               \cup {[type |-> type, detail |-> detail, age |-> 0]}
                        ELSE Recent(notices.shown),
              timers |-> IF added
                         THEN notices.timers (+) SetToBag({TOAST_RESET})
                         ELSE notices.timers,
              calls |-> notices.calls + 1,
              last |-> [kind |-> "showToast", type |-> type, detail |-> detail,
                        added |-> added,
                        recent |-> \E s \in Recent(notices.shown) :
                                     s.type = type /\ s.detail = detail]]
  /\ UNCHANGED <<storeVars, pipeVars, api, pure>>

\* a setTimeout of showToast comes due: lastToast = null
ToastReset ==
  /\ BagIn(0, notices.timers)
  /\ toast' = [lastToast |-> NoRecord, timers |-> toast.timers - 1]
  /\ notices' = [notices EXCEPT !.timers = @ (-) SetToBag({0}),
                                !.last = [kind |-> "reset"]]
  /\ UNCHANGED <<storeVars, pipeVars, api, pure>>

\* d milliseconds pass: no timer is overtaken
ToastAdvance(d) ==
  /\ d > 0
  /\ \A t \in BagToSet(notices.timers) : t >= d
  /\ notices' =
       [notices EXCEPT
          !.shown = Recent({[s EXCEPT !.age = @ + d] : s \in @}),
          !.timers = [t \in {x - d : x \in BagToSet(@)} |->
                        CopiesIn(t + d, notices.timers)],
          !.last = [kind |-> "advance"]]
  /\ UNCHANGED <<storeVars, toast, pipeVars, api, pure>>

\* the lapses of time: a third of the reset delay, and the time to a timer
ToastLapses == {TOAST_RESET \div 3} \cup BagToSet(notices.timers)

NextToast ==
  \/ \E t \in ToastInputs : ShowToast(t.type, t.detail)
  \/ ToastReset
  \/ \E d \in ToastLapses : ToastAdvance(d)

SpecToast == InitPipeline /\ [][NextToast]_vars

(* ================= the sanitizer, string by string ===================== *)
\* longest input of sanitizeInput, in pieces
MaxPieces == 3
\* most values in one array, object or FormData
MaxItems == 2

\* Pieces of the strings given to sanitizeInput: a word, the blank, tags,
\* the scheme, a function name and its parenthesis, character references
Pieces == {"bob", Blank, "<script>", "</script>", "<b>", "javascript:",
           "eval", "(", "&lt;script&gt;", "&#40;"}

SanitizerInputs == SeqsUpTo(Pieces, MaxPieces)

\* Values given to recursivelySanitize.  Leaves: strings, a number, a
\* boolean, null; a File only as a FormData value, whose other values are
\* strings.
NumberLeaf == [kind |-> "number", value |-> 7]
BooleanLeaf == [kind |-> "boolean", value |-> TRUE]
FileLeaf == [kind |-> "file"]
PlainLeaves == {NumberLeaf, BooleanLeaf, NoRecord}
StringLeaves == {StringBody("bob"), StringBody("<script>x</script>")}
Leaves == PlainLeaves \cup StringLeaves

FlatPayloads ==
  {ArrayBody(s) : s \in SeqsUpTo(Leaves, MaxItems)}
    \cup {ObjectBody(s) : s \in SeqsUpTo(Leaves, MaxItems)}
    \cup {FormDataBody(s) : s \in SeqsUpTo(StringLeaves \cup {FileLeaf}, MaxItems)}

NestedPayloads ==
  UNION { {ArrayBody(<<c>>), ObjectBody(<<c>>)}
            \cup UNION { {ArrayBody(<<l, c>>), ObjectBody(<<l, c>>)} : l \in Leaves }
          : c \in FlatPayloads }

Payloads == Leaves \cup FlatPayloads \cup NestedPayloads

InitSanitizer ==
  /\ Constructed
  /\ pure \in {Sample("sanitizeInput", [text |-> i, data |-> NoRecord]) :
                 i \in SanitizerInputs}
                \cup {Sample("recursivelySanitize", [text |-> <<>>, data |-> p]) :
                        p \in Payloads}

\* sanitizeInput(input) is called
ApplySanitizeInput ==
  /\ pure.fn = "sanitizeInput"
  /\ ~pure.done
  /\ pure' = [pure EXCEPT !.done = TRUE,
                          !.output = sanitizeInput(pure.input.text)]
  /\ UNCHANGED <<storeVars, toast, pipeVars, api, notices>>

\* recursivelySanitize(data, sanitizer) is called
ApplyRecursivelySanitize ==
  /\ pure.fn = "recursivelySanitize"
  /\ ~pure.done
  /\ pure' = [pure EXCEPT !.done = TRUE,
                          !.output = recursivelySanitize(pure.input.data)]
  /\ UNCHANGED <<storeVars, toast, pipeVars, api, notices>>

NextSanitizer == ApplySanitizeInput \/ ApplyRecursivelySanitize

SpecSanitizer == InitSanitizer /\ [][NextSanitizer]_vars

(* ================================ claims ============================== *)
InFlight == {c \in DOMAIN calls : calls[c].st = "inflight"}

\* the state a store shows after a call starts
LoadingState ==
  [data |-> config.initialEntityState, response |-> NoRecord, loading |-> TRUE,
   error |-> NoRecord, initialised |-> FALSE]

\* the state of a store nothing has touched
IdleState ==
  [data |-> config.initialEntityState, response |-> NoRecord, loading |-> FALSE,
   error |-> NoRecord, initialised |-> FALSE]

\* the store shows exactly the answer the last step applied
ReflectsAnswer ==
  IF lastOp.kind = "success"
  THEN /\ store.data = lastOp.answer.body
       /\ store.response # NoRecord
       /\ store.response.response = lastOp.answer.body
       /\ store.response.responseHeader.status = lastOp.answer.status
       /\ store.error = NoRecord
       /\ store.initialised
       /\ ~store.loading
  ELSE /\ store.data = config.initialEntityState
       /\ store.response = NoRecord
       /\ store.error # NoRecord
       /\ store.error.status = lastOp.answer.status
       /\ store.error.error = lastOp.answer.body
       /\ ~store.initialised
       /\ ~store.loading

\* C1: in every reachable state of the store, under any interleaving of
\* getRequest, postRequest, updateState, clearState and the completions of
\* the calls, loading and initialised are never both true.
C1_LoadingInitialisedExclusive == ~(store.loading /\ store.initialised)

\* a success was applied while another call of the store is still in flight
C1_Witness ==
  /\ lastOp.kind = "success"
  /\ InFlight # {}
  /\ store.initialised
  /\ ~store.loading

\* C2: right after the first patchState of getRequest/postRequest, before
\* the ApiService call, the state is exactly the loading state with the
\* configured initial value, whatever the state was before.
C2_StartResetsState == pc # Idle => store = LoadingState

\* a call starts on a ready store whose initial value is not null
C2_Witness ==
  /\ pc # Idle
  /\ lastOp.from = "ready"
  /\ config.initialEntityState # Null
  /\ store = LoadingState

\* C3: initialised goes from false to true only in a step that applies a
\* successful completion, and every step that applies a failed completion
\* ends with initialised false.
C3_InitialisedOnlyOnSuccess ==
  [][ /\ (~store.initialised /\ store'.initialised) => lastOp'.kind = "success"
      /\ lastOp'.kind = "failure" => ~store'.initialised ]_vars

\* a success has just set initialised on a store that was loading
C3_Witness ==
  /\ lastOp.kind = "success"
  /\ lastOp.from = "loading"
  /\ store.initialised

\* C4: a fetch nothing interfered with, answered 200 with body b, leaves
\* data = b, response = the envelope of the answer, loading false, error
\* null, initialised true.
C4_FetchSuccessState ==
  ( /\ lastOp.kind = "success"
    /\ lastOp.method = "GET"
    /\ lastOp.superseded = Null
    /\ lastOp.answer.status = 200 )
  => /\ store.data = lastOp.answer.body
     /\ store.response # NoRecord
     /\ store.response.kind = "envelope"
     /\ store.response.response = lastOp.answer.body
     /\ store.response.responseHeader =
          [status |-> 200, statusText |-> "OK", success |-> TRUE]
     /\ store.response.error = NoRecord
     /\ store.loading = FALSE
     /\ store.error = NoRecord
     /\ store.initialised = TRUE

\* an undisturbed fetch was answered 200 with body b1
C4_Witness ==
  /\ lastOp.kind = "success"
  /\ lastOp.method = "GET"
  /\ lastOp.superseded = Null
  /\ lastOp.answer = [status |-> 200, body |-> "b1"]
  /\ store.data = "b1"

\* an undisturbed fetch was answered 500 with a body carrying a message
C5_Case ==
  /\ lastOp.kind = "failure"
  /\ lastOp.method = "GET"
  /\ lastOp.superseded = Null
  /\ lastOp.answer.status = 500
  /\ lastOp.answer.body.message # Null

\* the store state the claim describes for that case
C5_ErrorState ==
  /\ store.data = config.initialEntityState
  /\ store.loading = FALSE
  /\ store.initialised = FALSE
  /\ store.error # NoRecord
  /\ store.error.status = 500
  /\ store.error.error.message = lastOp.answer.body.message

\* C5 as claimed: a fetch answered 500 with message m ends in the error
\* state carrying m, and one notification request with detail m is emitted.
C5_Original ==
  C5_Case => /\ C5_ErrorState
             /\ lastOp.requested = << lastOp.answer.body.message >>

\* C5 as amended: the error state is as claimed; one showToast request with
\* detail m is made unless the request url contains /dummyapi, and then none.
C5_FetchFailureState ==
  C5_Case => /\ C5_ErrorState
             /\ lastOp.requested =
                  IF \E i \in 1..Len(config.detailsApiEndpoint) :
                       config.detailsApiEndpoint[i] = "dummyapi"
                  THEN <<>>
                  ELSE << lastOp.answer.body.message >>

\* a fetch on a path outside /dummyapi failed with 500 "boom" and asked for
\* the notification
C5_Witness ==
  /\ C5_Case
  /\ lastOp.requested = <<"boom">>
  /\ store.error.error.message = "boom"

\* C6: calls A then B are issued, B resolves first; once A has resolved too,
\* the store shows A's result: the completion applied last wins.
C6_LastResolvedWins ==
  ( /\ lastOp.kind \in {"success", "failure"}
    /\ InFlight = {}
    /\ \E b \in DOMAIN calls : b > lastOp.call /\ calls[b].st = "done" )
  => ReflectsAnswer

\* call 1 resolved with success after call 2 had resolved
C6_Witness ==
  /\ lastOp.kind = "success"
  /\ lastOp.call = 1
  /\ Len(calls) >= 2
  /\ calls[2].st = "done"
  /\ InFlight = {}
  /\ store.data = lastOp.answer.body
  /\ store.initialised

\* C7 as claimed: every call that is no longer running or in flight has had
\* exactly one terminal patch, and no call ever has two.
C7_ExactlyOneTerminalPatch ==
  /\ \A c \in DOMAIN calls : calls[c].patches <= 1
  /\ \A c \in DOMAIN calls : calls[c].st # "inflight" => calls[c].patches = 1

\* C8: a call that clearState, updateState or a newer call has overtaken
\* still applies its success or failure patch when it resolves, overwriting
\* what the later operation left.
C8_NoCancellation ==
  ( /\ lastOp.kind \in {"success", "failure"}
    /\ lastOp.superseded # Null )
  => ReflectsAnswer

\* a failure arrived for a call after clearState had reset the store
C8_Witness ==
  /\ lastOp.kind = "failure"
  /\ lastOp.superseded = "clearState"
  /\ lastOp.from = "idle"
  /\ store.error # NoRecord

\* C9: clearState yields exactly the initial state from any state, changes
\* nothing on a store already in it, and twice equals once.
C9_ClearStateIdempotent ==
  /\ lastOp.kind = "clearState" => store = IdleState
  /\ clearState(store, config) = IdleState
  /\ store = IdleState => clearState(store, config) = store
  /\ clearState(clearState(store, config), config) = clearState(store, config)

\* clearState ran on a ready store while a call was in flight
C9_Witness ==
  /\ lastOp.kind = "clearState"
  /\ lastOp.from = "ready"
  /\ InFlight # {}
  /\ store = IdleState

\* C10: updateState(v) sets data to v, loading to false, error to null,
\* leaves initialised and response as they were and issues no transport
\* request.
C10_UpdateStateFrame ==
  [][ lastOp'.kind = "updateState" =>
        /\ store'.data = lastOp'.arg
        /\ store'.loading = FALSE
        /\ store'.error = NoRecord
        /\ store'.initialised = store.initialised
        /\ store'.response = store.response
        /\ lastOp'.transport = 0
        /\ InFlight' = InFlight
        /\ logouts' = logouts ]_vars

\* updateState(null) ran on a ready store: the response and initialised stay
C10_Witness ==
  /\ lastOp.kind = "updateState"
  /\ lastOp.from = "ready"
  /\ lastOp.arg = Null
  /\ store.data = Null
  /\ store.initialised
  /\ store.response # NoRecord

\* updateState has just run on a store that was idle, ready or in error
C11_Case ==
  /\ lastOp.kind = "updateState"
  /\ lastOp.from \in {"idle", "ready", "error"}

\* C11 as claimed: after updateState on an idle, ready or error store the
\* lifecycle state derived from loading/initialised/error is ready.
C11_Original == C11_Case => Lifecycle(store) = "ready"

\* C11 as amended: after updateState on an idle, ready or error store,
\* loading is false and error is null; the derived lifecycle state is ready
\* when the store was ready before, and idle when it was idle or in error.
C11_UpdateStateLifecycle ==
  C11_Case => /\ ~store.loading
              /\ store.error = NoRecord
              /\ Lifecycle(store) =
                   IF lastOp.from = "ready" THEN "ready" ELSE "idle"

\* updateState("b1") ran on a store in the error state: the store holds b1
\* and is idle, not ready
C11_Witness ==
  /\ lastOp.kind = "updateState"
  /\ lastOp.from = "error"
  /\ lastOp.arg = "b1"
  /\ store.data = "b1"
  /\ ~store.initialised
  /\ Lifecycle(store) = "idle"

\* the steps that are operations on the other store instance
PeerOps == {"peerOperation"}

\* the logout answer of the last step carries responseHeader.success
LogoutSucceeded(op) ==
  /\ op.kind = "logoutSuccess"
  /\ generateResponse(HttpResponse(op.answer.status, op.answer.body, LogoutUrl),
                      OptionsOf(<<>>), NoRecord).responseHeader.success

\* C12 as claimed: no operation on one store instance, nor anything that
\* follows from the completion of its calls (a 401 included), changes a
\* field of another instance: the other instance changes only in steps that
\* are its own operations, and those leave this store alone.
C12_Original ==
  [][ /\ peer' # peer => lastOp'.kind \in PeerOps
      /\ lastOp'.kind \in PeerOps => store' = store /\ calls' = calls ]_vars

\* C12 as amended: the only step that changes one instance without being an
\* operation on it is the successful answer to the logout request a 401
\* started, which resets the UserStore to its initial state whichever store
\* issued the failed call; no other store instance is touched.
C12_StoreOwnership ==
  [][ /\ peer' # peer =>
           \/ lastOp'.kind \in PeerOps
           \/ LogoutSucceeded(lastOp') /\ PeerConfig.isUserStore
      /\ (LogoutSucceeded(lastOp') /\ PeerConfig.isUserStore)
           => peer' = initialState(PeerConfig)
      /\ lastOp'.kind \in PeerOps => store' = store /\ calls' = calls ]_vars

\* a store that is not the UserStore had a call fail with 401; the logout it
\* started was answered with success and reset the UserStore, which held b1
C12_Witness ==
  /\ LogoutSucceeded(lastOp)
  /\ ~config.isUserStore
  /\ logouts.issued > 0
  /\ lastOp.peerData = "b1"
  /\ peer = initialState(PeerConfig)

\* the requests the pipeline handed to the transport
DispatchedRequests == {n \in DOMAIN requests : requests[n].dispatched}

\* a single request was dispatched, and it completed before its threshold
\* check came due
C13_Case ==
  \E n \in DOMAIN requests :
    /\ DispatchedRequests = {n}
    /\ requests[n].st = "ended"
    /\ requests[n].early

\* C13 as claimed: when a single request is dispatched and completes less
\* than 5000ms after its start hook, showStartupModal is never true.
C13_Original == C13_Case => ~monitor.showStartupModal

\* C13 as amended: a single dispatched request that completes less than
\* 5000ms after its start hook by success, by unsubscription or with a
\* failure that is neither status 0 nor a timeout never makes
\* showStartupModal true, also when its threshold check fires later; while
\* it is in flight before the threshold the flag is false; a status 0 or
\* timeout failure makes the flag true at its end hook.
C13_FastRequestNeverSlow ==
  \A n \in DOMAIN requests :
    DispatchedRequests = {n} =>
      /\ (requests[n].st = "ended" /\ requests[n].early
            /\ requests[n].how \notin {"connection", "timeout"})
           => ~monitor.showStartupModal
      /\ (requests[n].st # "ended" /\ Early(n)) => ~monitor.showStartupModal
      /\ (requests[n].st = "ended" /\ requests[n].how \in {"connection", "timeout"}
            /\ hook.kind = "failure") => monitor.showStartupModal

\* the threshold check of a single request that had completed with success
\* before it came due has just fired, and the modal stays hidden
C13_Witness ==
  /\ C13_Case
  /\ \E n \in DispatchedRequests : requests[n].how = "success" /\ hook.req = n
  /\ hook.kind = "check"
  /\ ~monitor.showStartupModal

\* C14 as claimed: when the threshold check of a request that is still in
\* flight fires, showStartupModal is true after it, also when other requests
\* with the same method and url were dispatched and completed in the meantime.
C14_ThresholdRaises ==
  ( /\ hook.kind = "check"
    /\ requests[hook.req].st = "inflight" )
  => monitor.showStartupModal

\* C15 as claimed: showStartupModal goes from true to false, other than by
\* hideModal, only when the hide timer fires and no dispatched request is
\* in flight at that instant; a request that started before the timer fired
\* and is still in flight keeps the flag up.
C15_NoPrematureHide ==
  ( /\ hook.was
    /\ ~monitor.showStartupModal
    /\ hook.kind # "hideModal" )
  => /\ hook.kind = "hide"
     /\ \A n \in DOMAIN requests : requests[n].st # "inflight"

\* C16: when a request ends with a failure of status 0 or with a timeout
\* failure, its id is no longer in pendingRequests and showStartupModal is
\* true after the end hooks, whatever else is pending.
C16_ConnectionFailureRaises ==
  [][ ( /\ hook'.kind = "failure"
        /\ hook'.status \in {CONNECTION_ERROR_STATUS, 504} )
      => /\ requests[hook'.req].id \notin monitor'.pendingRequests
         /\ monitor'.showStartupModal ]_vars

\* a request failed with status 0 while another request was pending, and the
\* modal, hidden before, is up
C16_Witness ==
  /\ hook.kind = "failure"
  /\ hook.status = CONNECTION_ERROR_STATUS
  /\ ~hook.was
  /\ monitor.pendingRequests # {}
  /\ monitor.showStartupModal

\* C17 as claimed: while pendingRequests stays non-empty the threshold
\* checks take showStartupModal from false to true at most once, also when
\* several requests are pending and hideModal is called in between.
C17_RaisedOncePerStretch == raises <= 1

\* C18 as claimed: the handling of every transport failure with status 401,
\* whether its body is plain text, JSON or a Blob, calls AuthService.logout
\* and requests a notification.
C18_UnauthorizedLogsOut ==
  ( /\ hook.kind \in {"failure", "blobRead"}
    /\ hook.status = 401 )
  => /\ hook.logout = 1
     /\ Len(hook.requested) = 1

\* the last step was a request entering authInterceptor
RequestStep == hook.kind \in {"offline", "invalid", "dispatch"}

\* the start hook ran for request n: it is marked dispatched, or the
\* threshold timer the hook schedules for it is waiting
StartHookRan(n) ==
  \/ requests[n].dispatched
  \/ \E t \in BagToSet(monitor.timers) : t.kind = "check" /\ t.req = n

\* C19: a request made while navigator.onLine is false fails with the
\* synthesized status 0, is not handed to the transport and does not reach
\* the start hook, whatever its method and body; the same holds for the
\* logout request a 401 starts while offline.
C19_OfflineFailsFast ==
  /\ (RequestStep /\ ~hook.online) =>
       /\ hook.kind = "offline"
       /\ hook.status = 0
       /\ hook.transport = 0
       /\ hook.requested = <<>>
       /\ ~StartHookRan(hook.req)
  /\ (hook.kind = "failure" /\ hook.logout = 1 /\ ~hook.online) =>
       /\ hook.transport = 0
       /\ ~StartHookRan(Len(requests))

\* a POST whose body the Sanitizer would flag was made offline while another
\* request was pending: status 0, no transport call, no timer of its own
C19_Witness ==
  /\ hook.kind = "offline"
  /\ hook.input.method = "POST"
  /\ hook.status = 0
  /\ hook.transport = 0
  /\ monitor.pendingRequests # {}
  /\ ~StartHookRan(hook.req)

\* the body holds at least one leaf string the Sanitizer flags
RECURSIVE HasFlaggedLeaf(_)
HasFlaggedLeaf(data) ==
  \/ data.kind = "string" /\ sanitizeInput(Lexemes(data.text)).error
  \/ /\ data.kind \in {"array", "object", "formdata"}
     /\ \E i \in 1..Len(data.items) : HasFlaggedLeaf(data.items[i])

\* C20 as claimed: every online POST, PUT or PATCH whose body holds a leaf
\* string the Sanitizer flags, whatever its url and body shape, fails with the
\* synthesized status 400, requests the notification and is not handed to
\* the transport.
C20_FlaggedBodyFailsFast ==
  ( /\ RequestStep
    /\ hook.online
    /\ hook.input.method \in {"POST", "PUT", "PATCH"}
    /\ HasFlaggedLeaf(hook.input.body) )
  => /\ hook.kind = "invalid"
     /\ hook.status = 400
     /\ hook.requested = <<"Please enter valid input.">>
     /\ hook.transport = 0

(* ------------------------------- C21 ---------------------------------- *)
\* the order of the steps of a pipeline call as the specification lists them
StepOrder ==
  <<"onLine", "setParamsInUrl", "sanitizeRequestBody", "interceptorFn",
    "onRequestStart", "next">>

StepRank(e) == CHOOSE i \in 1..Len(StepOrder) : StepOrder[i] = e

Steps(trace) ==
  {i \in 1..Len(trace) : \E k \in 1..Len(StepOrder) : StepOrder[k] = trace[i]}

\* C21: in every ApiService call the steps taken occur in the order
\* connectivity precheck, placeholder resolution, Sanitizer pass, header
\* attachment, start hook, transport call; and a call that failed fast at
\* the connectivity precheck has taken no later step of that order (no
\* placeholder resolution, no parameter removed from the caller's mapping).
C21_StepsInOrder ==
  api.at # "idle" =>
    /\ \A i, j \in Steps(api.trace) :
         i < j => StepRank(api.trace[i]) < StepRank(api.trace[j])
    /\ (api.at = "error" /\ ~api.online) =>
         /\ \A i \in Steps(api.trace) : api.trace[i] = "onLine"
         /\ api.left = api.given

(* ------------------------------- C22 ---------------------------------- *)
\* the positions of the trace at which the error dispatcher acted
SideEffects(trace) ==
  {i \in 1..Len(trace) : trace[i] \in {"onRequestEnd", "showToast", "logout"}}

Delivered(trace) == {i \in 1..Len(trace) : trace[i] = "errorHandler"}

\* the last pipeline step was the failure answer to the ApiService call
TransportFailed == hook.kind = "failure" /\ hook.req = api.req

\* C22: when the transport answers an ApiService call with a failure, the
\* failure envelope is delivered to the caller's error handler exactly
\* once, and the end hook with the failure, every notification request and
\* the logout invocation of the error dispatcher come before that delivery.
C22_EffectsBeforeDelivery ==
  TransportFailed =>
    /\ api.at = "error"
    /\ api.envelope # NoRecord
    /\ Cardinality(Delivered(api.trace)) = 1
    /\ \E i \in SideEffects(api.trace) : api.trace[i] = "onRequestEnd"
    /\ Cardinality({i \in SideEffects(api.trace) : api.trace[i] = "showToast"})
         = Len(hook.requested)
    /\ Cardinality({i \in SideEffects(api.trace) : api.trace[i] = "logout"})
         = hook.logout
    /\ \A i \in SideEffects(api.trace), k \in Delivered(api.trace) : i < k

\* a 401 answer: a notification request and a logout before the delivery
C22_Witness ==
  /\ TransportFailed
  /\ hook.status = 401
  /\ hook.logout = 1
  /\ Len(hook.requested) = 1
  /\ api.at = "error"

(* ------------------------------- C23 ---------------------------------- *)
\* C23: an ApiService call hands at most one request to the transport, and
\* the step that delivers a failure answer issues no request except the
\* logout request of a 401: the failed request is not issued again.
C23_AtMostOneAttempt ==
  /\ api.at # "idle" => api.attempts <= 1
  /\ TransportFailed =>
       /\ api.attempts = 1
       /\ hook.transport <= hook.logout
       /\ hook.status # 401 => hook.transport = 0

\* a 500 answer was delivered after the one attempt
C23_Witness ==
  /\ TransportFailed
  /\ hook.status = 500
  /\ api.at = "error"
  /\ api.attempts = 1

(* ------------------------------- C24 ---------------------------------- *)
\* the keys left in a mapping
KeysOf(queryParams) == {queryParams[i].key : i \in 1..Len(queryParams)}

\* C24: for every endpoint and query-parameter mapping, each segment that is
\* the placeholder of a key of the mapping is, in the path setParamsInUrl
\* returns, that parameter's value, and the key is no longer in the mapping
\* sent as query parameters.
C24_PlaceholdersResolved ==
  (pure # NoRecord /\ pure.fn = "setParamsInUrl" /\ pure.done) =>
    \A i \in 1..Len(pure.input.endpoint), k \in 1..Len(pure.input.queryParams) :
      LET entry == pure.input.queryParams[k] IN
      Chars(pure.input.endpoint[i]) = <<":">> \o Chars(entry.key) =>
        /\ pure.output.endpoint[i] = entry.val
        /\ entry.key \notin KeysOf(pure.output.queryParams)

(* ------------------------------- C25 ---------------------------------- *)
\* C25: in every envelope ApiService delivers, to the next handler or to the
\* error handler, on the live path and on the mock path, responseHeader
\* .success is true exactly when responseHeader.status is 200, 201 or 300.
C25_SuccessIffStatus ==
  api.at \in {"next", "error"} =>
    (api.envelope.responseHeader.success
       <=> api.envelope.responseHeader.status \in {200, 201, 300})

\* a live answer 204 was delivered to the next handler with success false
C25_Witness ==
  /\ api.at = "next"
  /\ ~api.isMock
  /\ api.envelope.responseHeader.status = 204
  /\ ~api.envelope.responseHeader.success

(* ------------------------------- C26 ---------------------------------- *)
\* the fields of the envelope a 2xx answer to the same call would deliver
SuccessFields ==
  DOMAIN ApiMap(api, HttpResponse(200, "b1", api.request.url)).envelope

\* the own properties of an HttpErrorResponse that the model carries
FailureProperties == {"status", "statusText", "url", "ok", "name", "message", "error"}

\* C26 as stated: the envelope delivered for a failed call has exactly the
\* fields of the envelope delivered for a successful call.
C26_Original ==
  api.at = "error" => DOMAIN api.envelope = SuccessFields

\* C26: the envelope delivered for a failed call has every field of the
\* envelope of a successful call of the same method; on the mock path it has
\* no other field, on the live path it has in addition the own properties
\* of the failure.
C26_FailureFields ==
  api.at = "error" =>
    DOMAIN api.envelope =
      IF api.isMock THEN SuccessFields
      ELSE SuccessFields \cup FailureProperties

\* a live call failed at the transport; a mock file was missing
C26_Witness ==
  /\ api.at = "error"
  /\ ~api.isMock
  /\ api.attempts = 1
  /\ DOMAIN api.envelope # SuccessFields

(* ------------------------------- C27 ---------------------------------- *)
\* null in the error field of an envelope
NullError(e) == e.kind = "null"

\* C27: every failed ApiService call delivers an envelope whose error field
\* is not null, and every successful call one whose error field is null.
C27_ErrorFieldSet ==
  /\ api.at = "error" => ~NullError(api.envelope.error)
  /\ api.at = "next" => NullError(api.envelope.error)

(* ------------------------------- C28 ---------------------------------- *)
\* C28: a showToast call whose type and detail equal those of a
\* notification handed to the renderer less than 3000 ms earlier hands no
\* notification to the renderer, whatever was shown in between.
C28_DuplicateSuppressed ==
  (notices.last.kind = "showToast" /\ notices.last.recent) => ~notices.last.added

(* -------------------------------- C29 -------------------------------- *)
SanitizeInputDone == pure.fn = "sanitizeInput" /\ pure.done

\* the string holds <script> ... </script>, javascript:, or eval( ... 
ContainsNamedPattern(input) ==
  \/ \E i \in 1..Len(input) :
       /\ input[i] = "<script>"
       /\ \E j \in (i + 1)..Len(input) : input[j] = "</script>"
  \/ \E i \in 1..Len(input) : input[i] = "javascript:"
  \/ CallLike(input, "eval")

\* the string holds no tag
NoMarkup(input) == \A i \in 1..Len(input) : input[i] \notin Tags

\* the text the string stands for once its character references are read
TextOf(input) == [i \in 1..Len(input) |-> Decode(input[i])]

\* C29: sanitizeInput flags every string that holds <script>...</script>,
\* javascript: or a call-like eval(...), and flags no string that holds no
\* markup and of which neither the characters nor the text they stand for
\* match a dangerous pattern.
C29_FlagsNamedPatterns ==
  SanitizeInputDone =>
    LET input == pure.input.text IN
      /\ ContainsNamedPattern(input) => pure.output.error
      /\ ( /\ NoMarkup(input)
           /\ ~Dangerous(input)
           /\ ~Dangerous(TextOf(input)) ) => ~pure.output.error

\* a string with a blank between eval and its parenthesis has been flagged
C29_Witness ==
  /\ SanitizeInputDone
  /\ pure.input.text = <<"eval", Blank, "(">>
  /\ pure.output.error

(* -------------------------------- C30 -------------------------------- *)
RecursivelySanitizeDone == pure.fn = "recursivelySanitize" /\ pure.done

\* no string is reachable in the payload: only numbers, booleans, null
\* (and files), at any depth
RECURSIVE OnlyPlainLeaves(_)
OnlyPlainLeaves(data) ==
  \/ data.kind \in {"number", "boolean", "null", "file"}
  \/ /\ data.kind \in {"array", "object", "formdata"}
     /\ \A i \in 1..Len(data.items) : OnlyPlainLeaves(data.items[i])

Pending == {n \in DOMAIN requests : requests[n].st \in {"inflight", "reading"}}

\* request n leaves the pipeline in this step
Completes(n) ==
  /\ n \in DOMAIN requests
  /\ requests[n].st \in {"inflight", "reading"}
  /\ requests'[n].st = "ended"

\* C31: the step that completes a dispatched request, by success, failure
\* or unsubscription, leaves its identifier out of pendingRequests, and
\* whenever no dispatched request is in flight pendingRequests is empty.
C31_EndRemovesPending ==
  /\ [](Pending = {} => monitor.pendingRequests = {})
  /\ [][\A n \in 1..MaxRequests :
          Completes(n) => requests[n].id \notin monitor'.pendingRequests]_vars

\* a request has failed while another one was in flight, and both are gone
C31_Witness ==
  /\ Len(requests) = 2
  /\ \A n \in DOMAIN requests : requests[n].st = "ended" /\ requests[n].dispatched
  /\ requests[1].how = "failure"
  /\ hook.kind \in {"success", "unsubscribe"}
  /\ hook.req = 2
  /\ monitor.pendingRequests = {}

(* -------------------------------- C32 -------------------------------- *)
\* the Blob can be read and its text is JSON
ReadsAsJson(err) == err.error.readable /\ err.error.parsed # NoRecord

\* C32 as claimed: for a Blob body that cannot be read or parsed as JSON
\* the original failure is delivered unchanged and no notification is
\* requested; for a Blob that decodes, the failure delivered carries the
\* decoded body and the notification was requested before.
C32_BlobFailureDelivered ==
  hook.kind = "blobRead" =>
    IF ReadsAsJson(hook.original)
    THEN /\ hook.delivered.error = hook.original.error.parsed
         /\ Len(hook.requested) = 1
    ELSE /\ hook.delivered = hook.original
         /\ hook.requested = <<>>

(* -------------------------------- C33 -------------------------------- *)
\* how many of loading, initialised, error # null hold
FlagsUp(state) ==
  (IF state.loading THEN 1 ELSE 0)
  + (IF state.initialised THEN 1 ELSE 0)
  + (IF state.error # NoRecord THEN 1 ELSE 0)

\* C33: in every reachable state of the store at most one of loading,
\* initialised and error # null holds, and while loading holds or error is
\* not null, data is the configured initial value and response is null.
C33_OneLifecycleFlag ==
  /\ FlagsUp(store) <= 1
  /\ (store.loading \/ store.error # NoRecord)
       => /\ store.data = config.initialEntityState
          /\ store.response = NoRecord

\* a failure has just put the store of a non-null initial value into the
\* error state
C33_Witness ==
  /\ lastOp.kind = "failure"
  /\ store.error # NoRecord
  /\ ~store.loading
  /\ ~store.initialised
  /\ store.data = "e0"
  /\ store.response = NoRecord

(* -------------------------------- C34 -------------------------------- *)
\* C34 as claimed: an answer drives the store to ready only with an
\* envelope whose responseHeader.success is true, and to error only with an
\* envelope whose responseHeader.success is false, whatever the status.
C34_SuccessFlagAgrees ==
  /\ lastOp.kind = "success" =>
       (store.initialised => store.response.responseHeader.success)
  /\ lastOp.kind = "failure" =>
       (store.error # NoRecord => ~store.error.responseHeader.success)

(* -------------------------------- C35 -------------------------------- *)
\* C35 as claimed: between the tasks of the store, loading is true if and
\* only if at least one of its getRequest/postRequest calls is in flight.
C35_LoadingIffInFlight ==
  pc = Idle => (store.loading <=> InFlight # {})

(* -------------------------------- C36 -------------------------------- *)
\* C36 as claimed: when every task runs to its end and the transport
\* answers every request, a store that is loading eventually is not, for
\* every query-parameter mapping, one with a null value included.
C36_LoadingEnds == store.loading ~> ~store.loading

(* -------------------------------- C37 -------------------------------- *)
\* C37 as claimed: after a request has ended with a status 0 failure and
\* raised showStartupModal, no timer started by that request sets it back
\* to false.
C37_ConnectionFailureStaysUp ==
  ( /\ hook.kind = "hide"
    /\ requests[hook.req].how = "connection"
    /\ hook.was )
  => monitor.showStartupModal

(* -------------------------------- C38 -------------------------------- *)
\* C38 as claimed: pendingRequests holds one entry for every request handed
\* to the transport and not yet completed, also for requests of the same
\* method and url dispatched in the same millisecond.
C38_OneRecordPerRequest ==
  Cardinality(monitor.pendingRequests)
    = Cardinality({n \in DOMAIN requests : requests[n].st = "inflight"})

(* -------------------------------- C39 -------------------------------- *)
\* C39 as claimed: the failure of a logout request never calls
\* AuthService.logout again, so one 401 is followed by one logout request.
C39_LogoutChainEnds ==
  [][ ( /\ hook'.kind = "failure"
        /\ requests[hook'.req].caller = "logout" )
      => hook'.logout = 0 ]_vars

(* -------------------------------- C40 -------------------------------- *)
\* every request that entered the pipeline has left it
Quiet == \A n \in DOMAIN requests : requests[n].st = "ended"

====
